---- MODULE Spec2Model ----
(***************************************************************************)
(* Model of the KOM archive container (kom.py) and of the extract action   *)
(* of its command line front end (kompactor.py).                           *)
(*                                                                         *)
(* Byte strings and text strings are sequences of character codes 0..255.  *)
(* Python's None is the empty tuple << >> for an optional object (an       *)
(* object that is present is the one-element tuple <<object>>) and NoneInt *)
(* for an optional integer.                                                *)
(***************************************************************************)
EXTENDS Integers, Sequences, FiniteSets, Bags, TLC

(***************************************************************************)
(* Bounds of the model.                                                    *)
(***************************************************************************)
\* the most entries an archive holds: there are that many names an entry
\* can have (EntryNames), so that an index of MaxEntries is past the end
MaxEntries == 3

(***************************************************************************)
(* Program constants.                                                      *)
(***************************************************************************)
metadata_size == 72
header_info_size == 60
\* len(file_name) > 60 in add_file; the width of the '60s' struct field
NameFieldSize == 60
\* the '27s' field of the header
RawVersionSize == 27
\* the '25x' pad bytes of the header
HeaderPadSize == 25
NoneInt == -1

CrcXmlName == <<99, 114, 99, 46, 120, 109, 108>>   \* 'crc.xml'
MassfilePrefix == <<75, 79, 71, 32, 71, 67, 32, 84, 69, 65, 77, 32, 77, 65, 83, 83, 70, 73, 76, 69, 32>>   \* 'KOG GC TEAM MASSFILE '
VersionPrefix == <<86, 46, 48, 46>>   \* 'V.0.'
XmlDecl == <<60, 63, 120, 109, 108, 32, 118, 101, 114, 115, 105, 111, 110, 61, 34, 49, 46, 48, 34, 32, 101, 110, 99, 111, 100, 105, 110, 103, 61, 34, 97, 115, 99, 105, 105, 34, 63, 62>>   \* '<?xml version="1.0" encoding="ascii"?>'
Indent == <<32, 32, 32, 32>>   \* '    '
TagFileInfo == <<70, 105, 108, 101, 73, 110, 102, 111>>   \* 'FileInfo'
TagVersion == <<86, 101, 114, 115, 105, 111, 110>>   \* 'Version'
TagItem == <<73, 116, 101, 109>>   \* 'Item'
TagFile == <<70, 105, 108, 101>>   \* 'File'
AttrName == <<78, 97, 109, 101>>   \* 'Name'
AttrSize == <<83, 105, 122, 101>>   \* 'Size'
AttrVersion == <<86, 101, 114, 115, 105, 111, 110>>   \* 'Version'
AttrCheckSum == <<67, 104, 101, 99, 107, 83, 117, 109>>   \* 'CheckSum'
EscAmp == <<38, 97, 109, 112, 59>>   \* '&amp;'
EscLt == <<38, 108, 116, 59>>   \* '&lt;'
EscQuot == <<38, 113, 117, 111, 116, 59>>   \* '&quot;'
EscGt == <<38, 103, 116, 59>>   \* '&gt;'
HexDigits == <<48, 49, 50, 51, 52, 53, 54, 55, 56, 57, 97, 98, 99, 100, 101, 102>>   \* '0123456789abcdef'

(***************************************************************************)
(* Sequences the way Python slices and compares them.                      *)
(***************************************************************************)
Min(a, b) == IF a < b THEN a ELSE b
Max(a, b) == IF a > b THEN a ELSE b

\* s[a:b] for 0 <= a, 0 <= b: the bounds are clamped to len(s)
Slice(s, a, b) == SubSeq(s, Min(a, Len(s)) + 1, Min(b, Len(s)))

Repeat(c, n) == [i \in 1..n |-> c]

\* f itself, held as the table of its values
Table(f) == f @@ << >>

RECURSIVE Run(_, _, _, _)
\* a loop: s after Step is applied to it until Done holds, 2^k times at
\* most.  A run of 2^k turns is two runs of 2^(k-1) turns, the second of
\* which starts where the first has stopped.
Run(Step(_), Done(_), s, k) ==
    IF Done(s) THEN s
    ELSE IF k = 0 THEN Step(s)
    ELSE Run(Step, Done, Run(Step, Done, s, k - 1), k - 1)

\* the k of a Run of n turns at most
Levels(n) == CHOOSE k \in 0..24 : 2 ^ k >= n /\ (k = 0 \/ 2 ^ (k - 1) < n)

\* b''.join(parts)
Concat(parts) ==
    Run(LAMBDA s :
                   [i |-> s.i + 1, acc |-> s.acc \o parts[s.i]],
        LAMBDA s :
                   s.i > Len(parts), [i |-> 1, acc |-> << >>], Levels(Len(parts))).acc

\* s < t for two str: decided by the first position where they differ, a
\* proper prefix first
StrLess(s, t) ==
    LET n     == Min(Len(s), Len(t))
        diffs == {i \in 1..n : s[i] /= t[i]}
        first == CHOOSE i \in diffs : \A j \in diffs : i <= j
    IN  IF diffs = {} THEN Len(s) < Len(t) ELSE s[first] < t[first]

RECURSIVE DigitsOf(_)
DigitsOf(n) ==
    IF n < 10 THEN <<48 + n>> ELSE DigitsOf(n \div 10) \o <<48 + (n % 10)>>

\* str(n) and '%d' % n for n >= 0
Str(n) == DigitsOf(n)

\* s.split(sep) for a one-character separator: the pieces between one
\* separator (or the start) and the next (or the end)
Split(s, sep) ==
    LET at     == {i \in 1..Len(s) : s[i] = sep}
        cut(k) == IF k = 0 THEN 0
                  ELSE IF k > Cardinality(at) THEN Len(s) + 1
                  ELSE CHOOSE p \in at : Cardinality({q \in at : q < p}) = k - 1
    IN  [k \in 1..(Cardinality(at) + 1) |-> SubSeq(s, cut(k - 1) + 1, cut(k) - 1)]

\* s.rstrip(c): s up to its last character other than c
RStrip(s, c) ==
    LET kept == {i \in 1..Len(s) : s[i] /= c}
        last == CHOOSE i \in kept : \A j \in kept : j <= i
    IN  IF kept = {} THEN << >> ELSE SubSeq(s, 1, last)

IsAscii(s) == \A i \in 1..Len(s) : s[i] < 128

(***************************************************************************)
(* int(str) and '%d' % int.  Python's integers have no bound, so an        *)
(* integer is held here by its sign and its decimal digits, the most       *)
(* significant first and no leading zero: [neg |-> FALSE, digits |-> <<0>>]*)
(* is 0.                                                                   *)
(***************************************************************************)
\* the characters str.strip(), as int() applies it, drops from an ASCII str
IntSpace == {9, 10, 11, 12, 13, 32}

\* s.strip() for the blanks int() drops
Strip(s) ==
    LET inked == {i \in 1..Len(s) : s[i] \notin IntSpace}
    IN  IF inked = {} THEN << >>
        ELSE SubSeq(s, CHOOSE i \in inked : \A j \in inked : i <= j,
                       CHOOSE i \in inked : \A j \in inked : i >= j)

\* rest is decimal digits with single underscores between them
IntShaped(rest) ==
    /\ Len(rest) > 0
    /\ \A i \in 1..Len(rest) : rest[i] \in 48..57 \cup {95}
    /\ rest[1] /= 95
    /\ rest[Len(rest)] /= 95
    /\ \A i \in 1..(Len(rest) - 1) : ~(rest[i] = 95 /\ rest[i + 1] = 95)

\* the digits ds without their leading zeros, <<0>> if all are zero
Significant(ds) ==
    LET marked == {i \in 1..Len(ds) : ds[i] /= 48}
    IN  IF marked = {} THEN <<0>>
        ELSE [i \in 1..(Len(ds) + 1 - CHOOSE k \in marked : \A j \in marked : k <= j) |->
                 ds[i - 1 + CHOOSE k \in marked : \A j \in marked : k <= j] - 48]

IntFail == [ok |-> FALSE, neg |-> FALSE, digits |-> <<0>>]

\* the integer with the digits and the sign: -0 is 0
IntValue(neg, digits) == [ok |-> TRUE, neg |-> neg /\ digits /= <<0>>, digits |-> digits]

\* what int() makes of the digits after the sign
IntDigits(neg, rest) ==
    IF IntShaped(rest)
    THEN IntValue(neg, Significant(SelectSeq(rest, LAMBDA c : c /= 95)))
    ELSE IntFail

\* int(s) for an ASCII str s: blanks around, one sign, then decimal digits
\* with single underscores between them; ok is FALSE where it raises
\* ValueError
IntBody(body) ==
    IF body = << >> THEN IntFail
    ELSE IntDigits(body[1] = 45, IF body[1] \in {43, 45} THEN Tail(body) ELSE body)

int(s) == IntBody(Strip(s))

\* '%d' % n
FormatD(n) == (IF n.neg THEN <<45>> ELSE << >>) \o [i \in 1..Len(n.digits) |-> 48 + n.digits[i]]

\* n in range(k), for k <= 10
InRange(n, k) == ~n.neg /\ Len(n.digits) = 1 /\ n.digits[1] < k

(***************************************************************************)
(* class Kom: the format strings                                           *)
(***************************************************************************)
\* Kom.version_fmt % version for the version of an archive object
version_fmt(ver) == VersionPrefix \o Str(ver) \o <<46>>

\* Kom.raw_version_fmt % n for the integer n that int() returned
raw_version_fmt(n) == MassfilePrefix \o VersionPrefix \o FormatD(n) \o <<46>>

(***************************************************************************)
(* struct.pack / struct.unpack_from, little endian.                        *)
(***************************************************************************)
\* the 'I' field: 4 bytes, least significant first
PackU32(n) ==
    <<n % 256, (n \div 256) % 256, (n \div 65536) % 256, (n \div 16777216) % 256>>

\* the 'I' field at 0-based offset off of b
UnpackU32(b, off) ==
    b[off + 1] + 256 * b[off + 2] + 65536 * b[off + 3] + 16777216 * b[off + 4]

\* the '<n>s' field: s cut to n bytes and padded with NUL bytes to n
PackStr(n, s) ==
    IF Len(s) >= n THEN SubSeq(s, 1, n) ELSE s \o Repeat(0, n - Len(s))

(***************************************************************************)
(* zlib.  A 32-bit value is kept as two 16-bit halves [hi, lo].            *)
(***************************************************************************)
RECURSIVE Xor(_, _)
\* a ^ b for two naturals, bit by bit
Xor(a, b) ==
    IF a = 0 THEN b
    ELSE IF b = 0 THEN a
    ELSE ((a + b) % 2) + 2 * Xor(a \div 2, b \div 2)

\* zlib's crc_table (the reflected polynomial 0xEDB88320), entry n at
\* position n + 1: the high halves and the low halves
CrcTableHi ==
    <<
    0, 30471, 60942, 39177, 1901, 28778, 59747, 40548, 3803, 31196, 57557, 38866,
    2486, 32433, 59320, 37055, 7607, 27312, 62393, 33982, 6874, 28125, 62676, 33747,
    4972, 25707, 64866, 35429, 5121, 25350, 64015, 36104, 15214, 19561, 54624, 41575,
    15363, 19204, 53773, 42250, 13749, 17074, 56251, 44220, 13016, 17887, 56534, 43985,
    9945, 20958, 51415, 49104, 8628, 22195, 53178, 47293, 10242, 24325, 50700, 45323,
    12143, 22632, 49505, 46694, 30428, 475, 39122, 61397, 29105, 1718, 40895, 59576,
    30727, 3840, 38409, 57614, 32618, 2157, 37220, 58979, 27499, 7276, 34149, 62050,
    27654, 6913, 33288, 62735, 26032, 4791, 35774, 64697, 25309, 5594, 36051, 64468,
    19890, 15029, 41916, 54459, 19167, 15832, 42193, 54230, 17257, 13422, 44391, 55904,
    17412, 13059, 43530, 56589, 20485, 9986, 48651, 51468, 22376, 8303, 47462, 52833,
    24286, 10713, 45264, 51159, 22963, 11956, 47037, 49338, 60856, 39615, 950, 29873,
    60117, 40402, 1243, 29660, 58211, 37988, 3437, 31338, 58382, 37641, 2560, 32007,
    61455, 34568, 7681, 26886, 63330, 32869, 6508, 28267, 65236, 35283, 4314, 26589,
    63929, 36542, 6071, 24752, 54998, 41425, 14552, 20447, 53691, 42684, 16309, 18610,
    55309, 44810, 13827, 16644, 57184, 43111, 12654, 18025, 52065, 48230, 9583, 21096,
    52236, 47883, 8706, 21765, 50618, 45757, 11188, 23731, 49879, 46544, 11481, 23518,
    39780, 60515, 30058, 621, 39945, 60174, 29191, 1280, 38335, 58040, 31665, 3254,
    37586, 58837, 31964, 3035, 34515, 61908, 26845, 8154, 33214, 63161, 28592, 6327,
    34824, 65295, 26118, 4353, 36709, 63586, 24939, 5740, 40970, 55053, 19972, 14595,
    42855, 53344, 18793, 15982, 44753, 55766, 16607, 14296, 43452, 57019, 18354, 12469,
    48573, 51898, 21427, 9396, 47824, 52695, 21726, 9177, 45926, 50273, 23912, 10863,
    46091, 49932, 23045, 11522 >>

CrcTableLo ==
    <<
    0, 12438, 24876, 20922, 50201, 62607, 42293, 38307, 34866, 47268, 59678, 55688,
    19499, 31933, 11527, 7569, 4196, 8434, 29000, 16862, 54397, 58603, 46417, 34247,
    38998, 43200, 63866, 51692, 23631, 27865, 15715, 3573, 8392, 4190, 16868, 29042,
    58577, 54343, 34301, 46443, 43258, 39020, 51670, 63808, 27875, 23669, 3535, 15705,
    12460, 58, 20864, 24854, 62645, 50211, 38297, 42255, 47262, 34824, 55730, 59684,
    31879, 19473, 7595, 11581, 16784, 28934, 8380, 4138, 34185, 46367, 58533, 54323,
    51618, 63796, 43150, 38936, 3515, 15661, 27799, 23553, 20980, 24930, 12504, 78,
    38381, 42363, 62657, 50263, 55750, 59728, 47338, 34940, 7647, 11593, 31987, 19557,
    24920, 20942, 116, 12514, 42305, 38359, 50285, 62715, 59754, 55804, 34886, 47312,
    11635, 7653, 19551, 31945, 28988, 16810, 4112, 8326, 46373, 34227, 54281, 58527,
    63758, 51608, 38946, 43188, 15639, 3457, 23611, 27821, 33568, 46006, 57868, 53914,
    18233, 30639, 9749, 5763, 2834, 15236, 27198, 23208, 53003, 65437, 44583, 40625,
    37700, 41938, 62056, 49918, 22365, 26571, 13937, 1767, 7030, 11232, 31322, 19148,
    57199, 61433, 48707, 36565, 41960, 37758, 49860, 62034, 26609, 22375, 1757, 13899,
    11226, 6988, 19190, 31328, 61379, 57173, 36591, 48761, 45964, 33562, 53920, 57910,
    30613, 18179, 5817, 9775, 15294, 2856, 23186, 27140, 65447, 53041, 40587, 44573,
    49840, 61990, 41884, 37642, 1705, 13887, 26501, 22291, 19074, 31252, 11182, 6968,
    36507, 48653, 61367, 57121, 53972, 57922, 46072, 33646, 5837, 9819, 30689, 18295,
    23270, 27248, 15306, 2908, 40703, 44649, 65491, 53061, 57976, 53998, 33620, 46018,
    9825, 5879, 18253, 30683, 27210, 23260, 2918, 15344, 44627, 40645, 53119, 65513,
    61980, 49802, 37680, 41894, 13829, 1683, 22313, 26559, 31278, 19128, 6914, 11156,
    48695, 36513, 57115, 61325 >>

\* crc_table[n - 1] ^ (crc >> 8)
CrcShift(c, n) ==
    [hi |-> Xor(CrcTableHi[n], c.hi \div 256),
     lo |-> Xor(CrcTableLo[n], (c.lo \div 256) + 256 * (c.hi % 256))]

\* crc = crc_table[(crc ^ byte) & 0xff] ^ (crc >> 8)
CrcUpdate(c, byte) == CrcShift(c, Xor(c.lo % 256, byte) + 1)

RECURSIVE CrcRange(_, _, _, _)
\* the register after the bytes data[lo..hi], from the register c: the
\* first half of the range, then the second (the test of c.lo makes the
\* evaluator compute c before it goes on)
CrcRange(data, lo, hi, c) ==
    IF c.lo < 0 \/ lo > hi THEN c
    ELSE IF lo = hi THEN CrcUpdate(c, data[lo])
    ELSE CrcRange(data, ((lo + hi) \div 2) + 1, hi,
                  CrcRange(data, lo, (lo + hi) \div 2, c))

\* crc ^ 0xffffffff
CrcNot(c) == [hi |-> 65535 - c.hi, lo |-> 65535 - c.lo]

\* zlib.crc32(data)
Crc32(data) == CrcNot(CrcRange(data, 1, Len(data), [hi |-> 65535, lo |-> 65535]))

\* s[1] + ... + s[Len(s)] for a sequence of naturals: the size of the bag
\* that holds s[i] + 1 copies of each i, less one copy of each
Sum(s) == BagCardinality([i \in 1..Len(s) |-> s[i] + 1]) - Len(s)

\* zlib.adler32(data): lo is 1 plus the sum of the bytes, hi the sum of the
\* values lo takes after each byte, both modulo 65521
Adler32(data) ==
    LET n == Len(data)
        weighted == [i \in 1..n |-> ((n - i + 1) * data[i]) % 65521]
    IN  [hi |-> (n + Sum(weighted)) % 65521,
         lo |-> (1 + Sum(data)) % 65521]

\* a 32-bit value as 4 bytes, most significant first
PackBE32(w) == <<w.hi \div 256, w.hi % 256, w.lo \div 256, w.lo % 256>>

(***************************************************************************)
(* zlib.compress: deflate at the default level (6), as zlib 1.2.13 does    *)
(* it for an input given at once that fits one block (fewer than 16383     *)
(* bytes): deflate_slow finds the matches, _tr_flush_block picks the       *)
(* cheapest of a stored, a fixed and a dynamic block.                      *)
(* Positions of the window and codes of a tree count from 0, as in zlib;   *)
(* byte and bit strings are sequences.                                     *)
(***************************************************************************)
MIN_MATCH == 3
MAX_MATCH == 258
\* configuration_table[6]: good_length, max_lazy, nice_length, max_chain
good_match == 8
max_lazy_match == 16
nice_match == 128
max_chain_length == 128
TOO_FAR == 4096
L_CODES == 286
D_CODES == 30
BL_CODES == 19
LITERALS == 256
END_BLOCK == 256
MAX_BITS == 15
MAX_BL_BITS == 7
REP_3_6 == 16
REPZ_3_10 == 17
REPZ_11_138 == 18

extra_lbits ==
    <<0, 0, 0, 0, 0, 0, 0, 0, 1, 1, 1, 1, 2, 2, 2, 2, 3, 3, 3, 3, 4, 4, 4, 4,
      5, 5, 5, 5, 0>>
extra_dbits ==
    <<0, 0, 0, 0, 1, 1, 2, 2, 3, 3, 4, 4, 5, 5, 6, 6, 7, 7, 8, 8, 9, 9, 10, 10,
      11, 11, 12, 12, 13, 13>>
extra_blbits == <<0, 0, 0, 0, 0, 0, 0, 0, 0, 0, 0, 0, 0, 0, 0, 0, 2, 3, 7>>
bl_order == <<16, 17, 18, 0, 8, 7, 9, 6, 10, 5, 11, 4, 12, 3, 13, 2, 14, 1, 15>>
\* the least length - 3 of each length code, the least distance - 1 of each
\* distance code
base_length ==
    <<0, 1, 2, 3, 4, 5, 6, 7, 8, 10, 12, 14, 16, 20, 24, 28, 32, 40, 48, 56,
      64, 80, 96, 112, 128, 160, 192, 224, 255>>
base_dist ==
    <<0, 1, 2, 3, 4, 6, 8, 12, 16, 24, 32, 48, 64, 96, 128, 192, 256, 384,
      512, 768, 1024, 1536, 2048, 3072, 4096, 6144, 8192, 12288, 16384, 24576>>

\* _length_code[lc] for lc = length - 3
length_code(lc) ==
    IF lc = 255 THEN 28
    ELSE CHOOSE c \in 0..27 :
             base_length[c + 1] <= lc /\ (c = 27 \/ base_length[c + 2] > lc)

\* d_code(d) for d = distance - 1
d_code(d) ==
    CHOOSE c \in 0..29 :
        base_dist[c + 1] <= d /\ (c = 29 \/ base_dist[c + 2] > d)

\* the window: the input, and past it the zero bytes of a fresh window
Window(raw) == raw \o Repeat(0, MAX_MATCH + MIN_MATCH)

\* UPDATE_HASH over the three bytes at p: 15 bits, 5 bits of shift
Hash3(w, p) == Xor(Xor((w[p + 1] % 32) * 1024, w[p + 2] * 32), w[p + 3])

\* head[] and prev[] as INSERT_STRING fills them from the hashes H of the
\* positions 0..n-MIN_MATCH
InsertStrings(n, H) ==
    Run(LAMBDA s :
                   [p    |-> s.p + 1,
                    head |-> [s.head EXCEPT ![H[s.p]] = s.p],
                    prev |-> Append(s.prev, s.head[H[s.p]])],
        LAMBDA s :
                   s.p > n - MIN_MATCH,
            [p |-> 0, head |-> Table([h \in {H[p] : p \in DOMAIN H} |-> 0]),
             prev |-> << >>], Levels(n)).prev

\* prev[p + 1] is the latest position before p that was inserted under the
\* hash of p, 0 (NIL) when there is none or when it is position 0.  Every
\* position with three bytes of input left is inserted.
PrevTable(w, n) == InsertStrings(n, Table([p \in 0..(n - MIN_MATCH) |-> Hash3(w, p)]))

\* the length of the match of the strings at a and at b: the first m
\* where they differ, MAX_MATCH at most
MatchLen(w, a, b) ==
    CHOOSE m \in 0..MAX_MATCH :
        /\ m = MAX_MATCH \/ w[a + m + 1] /= w[b + m + 1]
        /\ \A j \in 0..(m - 1) : w[a + j + 1] = w[b + j + 1]

\* one candidate of the hash chain, whose match with strstart has length len
TryMatch(prev, nice, s, len) ==
    [cur_match    |-> prev[s.cur_match + 1],
     chain_length |-> s.chain_length - 1,
     best_len     |-> IF len > s.best_len THEN len ELSE s.best_len,
     match_start  |-> IF len > s.best_len THEN s.cur_match ELSE s.match_start,
     done         |-> \/ (len > s.best_len /\ len >= nice)
                      \/ prev[s.cur_match + 1] = 0
                      \/ s.chain_length = 1]

\* longest_match(s, cur_match) at strstart = p: the candidates of the hash
\* chain, latest first; start is -1 when none beats prev_length
ChainEnd(w, n, prev, p, prev_length) ==
    Run(LAMBDA s :
                   TryMatch(prev, Min(nice_match, n - p), s,
                            MatchLen(w, s.cur_match, p)),
        LAMBDA s :
                   s.done,
            [cur_match    |-> prev[p + 1],
             chain_length |-> IF prev_length >= good_match
                              THEN max_chain_length \div 4
                              ELSE max_chain_length,
             best_len     |-> prev_length,
             match_start  |-> -1,
             done         |-> FALSE], Levels(max_chain_length))

BestMatch(lookahead, end) ==
    [length |-> Min(end.best_len, lookahead), start |-> end.match_start]

longest_match(w, n, prev, p, prev_length) ==
    BestMatch(n - p, ChainEnd(w, n, prev, p, prev_length))

\* the match longest_match has found at s.strstart, as deflate_slow takes
\* it: the previous start if none was found, no match if it is of
\* MIN_MATCH bytes and too far
TakenMatch(s, m) ==
    [start  |-> IF m.start /= -1 THEN m.start ELSE s.match_start,
     length |-> IF /\ m.length = MIN_MATCH
                   /\ s.strstart - (IF m.start /= -1 THEN m.start
                                    ELSE s.match_start) > TOO_FAR
                THEN MIN_MATCH - 1 ELSE m.length]

\* the match at s.strstart: none unless three bytes are left, the previous
\* match is short and the hash chain holds a candidate
CurrentMatch(w, n, prev, s) ==
    IF /\ n - s.strstart >= MIN_MATCH
       /\ s.match_length < max_lazy_match
       /\ prev[s.strstart + 1] /= 0
    THEN TakenMatch(s, longest_match(w, n, prev, s.strstart, s.match_length))
    ELSE [start |-> s.match_start, length |-> MIN_MATCH - 1]

\* what deflate_slow tallies at s.strstart, m being the match there: the
\* previous match if the current one is no longer, else the previous byte
\* as a literal
TallyStep(w, s, m) ==
    IF s.match_length >= MIN_MATCH /\ m.length <= s.match_length
    THEN [strstart |-> s.strstart + s.match_length - 1,
          match_length |-> MIN_MATCH - 1,
          match_start |-> m.start, match_available |-> FALSE,
          syms |-> Append(s.syms, <<s.strstart - 1 - s.match_start,
                                    s.match_length>>)]
    ELSE IF s.match_available
    THEN [strstart |-> s.strstart + 1, match_length |-> m.length,
          match_start |-> m.start, match_available |-> TRUE,
          syms |-> Append(s.syms, <<0, w[s.strstart]>>)]
    ELSE [strstart |-> s.strstart + 1, match_length |-> m.length,
          match_start |-> m.start, match_available |-> TRUE,
          syms |-> s.syms]

\* one turn of the loop of deflate_slow
deflate_slow_step(w, n, prev, s) == TallyStep(w, s, CurrentMatch(w, n, prev, s))

\* the loop of deflate_slow over the window w that holds n bytes of input
deflate_slow_loop(w, n, prev) ==
    Run(LAMBDA s :
                   deflate_slow_step(w, n, prev, s),
        LAMBDA s :
                   s.strstart >= n,
            [strstart |-> 0, match_length |-> MIN_MATCH - 1,
             match_start |-> 0, match_available |-> FALSE,
             syms |-> << >>], Levels(n))

\* the literal deflate_slow tallies after the loop
LastLiteral(w, end) ==
    IF end.match_available
    THEN Append(end.syms, <<0, w[end.strstart]>>)
    ELSE end.syms

deflate_window(w, n) == LastLiteral(w, deflate_slow_loop(w, n, PrevTable(w, n)))

\* deflate_slow over the whole input: the symbols it tallies, <<0, byte>>
\* for a literal and <<distance, length>> for a match
deflate_slow(raw) == deflate_window(Window(raw), Len(raw))

\* static_ltree and static_dtree: the code lengths of the fixed block
static_l_len ==
    Table([n \in 0..(L_CODES + 1) |->
        IF n <= 143 THEN 8 ELSE IF n <= 255 THEN 9 ELSE IF n <= 279 THEN 7 ELSE 8])

static_d_len == Table([n \in 0..(D_CODES - 1) |-> 5])

\* smaller(tree, n, m, depth)
smaller(t, a, b) ==
    t.freq[a] < t.freq[b] \/ (t.freq[a] = t.freq[b] /\ t.depth[a] <= t.depth[b])

\* the son of place k that pqdownheap compares with: the smaller of the two
SmallerSon(t, heap, k) ==
    IF 2 * k < Len(heap) /\ smaller(t, heap[2 * k + 1], heap[2 * k])
    THEN 2 * k + 1 ELSE 2 * k

\* one turn of the loop of pqdownheap, j the son to compare with
SiftStep(t, heap, v, s, j) ==
    IF 2 * s.k > Len(heap) \/ smaller(t, v, heap[j])
    THEN [heap |-> [s.heap EXCEPT ![s.k] = v], k |-> s.k, done |-> TRUE]
    ELSE [heap |-> [s.heap EXCEPT ![s.k] = heap[j]], k |-> j, done |-> FALSE]

\* pqdownheap(s, tree, k) with v the node that moves down from place k
pqdownheap(t, heap, k, v) ==
    Run(LAMBDA s :
                   SiftStep(t, heap, v, s, SmallerSon(t, heap, s.k)),
        LAMBDA s :
                   s.done, [heap |-> heap, k |-> k, done |-> FALSE],
            Levels(MAX_BITS)).heap

RECURSIVE ForcedCodes(_, _)
\* the codes build_tree gives frequency 1 so that the tree has two codes
ForcedCodes(heap_len, max_code) ==
    IF heap_len >= 2 THEN << >>
    ELSE IF max_code < 2
         THEN <<max_code + 1>> \o ForcedCodes(heap_len + 1, max_code + 1)
    ELSE <<0>> \o ForcedCodes(heap_len + 1, max_code)

\* the nodes n and m, the two least frequent, become the sons of a new node
JoinNodes(t, n, m) ==
    [t EXCEPT !.freq  = [@ EXCEPT ![t.node] = t.freq[n] + t.freq[m]],
              !.depth = [@ EXCEPT ![t.node] = Max(t.depth[n], t.depth[m]) + 1],
              !.dad   = [@ EXCEPT ![n] = t.node, ![m] = t.node],
              !.order = @ \o <<n, m>>,
              !.node  = t.node + 1]

\* the new node takes the top of the heap h1 and moves down
PushNode(t, h1, node) == [t EXCEPT !.heap = pqdownheap(t, h1, 1, node)]

\* pqremove has left the heap h1: its top is the second least frequent node
JoinTop(t, h1) == PushNode(JoinNodes(t, t.heap[1], h1[1]), h1, t.node)

\* one turn of the loop of build_tree that joins the two least frequent
\* nodes; order lists the nodes as they leave the heap
build_tree_step(t) ==
    JoinTop(t, pqdownheap(t, SubSeq(t.heap, 1, Len(t.heap) - 1), 1,
                          t.heap[Len(t.heap)]))

\* the largest element of a set of naturals, -1 for the empty set
MaxOf(S) == IF S = {} THEN -1 ELSE CHOOSE n \in S : \A m \in S : m <= n

\* the elements of a set of naturals in increasing order
Ascending(S) ==
    [i \in 1..Cardinality(S) |->
        CHOOSE n \in S : Cardinality({m \in S : m < n}) = i - 1]

\* build_tree before its loops: the heap holds the codes in use and the
\* codes forced into use, which have frequency 1
InitTree(desc, used, forced) ==
    [heap   |-> Ascending(used) \o forced,
     freq   |-> Table([n \in 0..(2 * desc.elems) |->
                    IF \E i \in 1..Len(forced) : forced[i] = n THEN 1
                    ELSE IF n < desc.elems THEN desc.freq[n] ELSE 0]),
     depth  |-> Table([n \in 0..(2 * desc.elems) |-> 0]),
     dad    |-> Table([n \in 0..(2 * desc.elems) |-> 0]),
     order  |-> << >>,
     node   |-> desc.elems,
     forced |-> forced,
     leaves |-> used \cup {forced[i] : i \in 1..Len(forced)},
     max_code |-> IF forced /= << >> /\ MaxOf(used) < 2
                  THEN MaxOf(used) + Len(forced) ELSE MaxOf(used)]

UsedTree(desc, used) ==
    InitTree(desc, used, ForcedCodes(Cardinality(used), MaxOf(used)))

\* for (n = s->heap_len/2; n >= 1; n--) pqdownheap(s, tree, n)
Heapify(t) ==
    [t EXCEPT !.heap =
            Run(LAMBDA s :
                   [heap |-> pqdownheap(t, s.heap, s.n, s.heap[s.n]),
                    n |-> s.n - 1],
        LAMBDA s :
                   s.n < 1, [heap |-> t.heap, n |-> Len(t.heap) \div 2],
                Levels(Len(t.heap))).heap]

\* the loop of build_tree: nodes are joined until one is left
JoinAll(t) ==
    Run(build_tree_step, LAMBDA s : Len(s.heap) < 2, t, Levels(Len(t.heap)))

\* gen_bitlen, first loop: the nodes from the root down, each one bit
\* longer than its parent and max_length at most; overflow counts the
\* nodes that were cut
BitLenStep(t, max_length, s, n) ==
    [h        |-> s.h + 1,
     len      |-> [s.len EXCEPT ![n] = Min(s.len[t.dad[n]] + 1, max_length)],
     overflow |-> s.overflow
                  + (IF s.len[t.dad[n]] + 1 > max_length THEN 1 ELSE 0)]

gen_bitlen(t, max_length) ==
    Run(LAMBDA s :
                   BitLenStep(t, max_length, s, t.order[Len(t.order) - s.h + 1]),
        LAMBDA s :
                   s.h > Len(t.order),
            [h |-> 1, len |-> Table([n \in DOMAIN t.dad |-> 0]), overflow |-> 0],
            Levels(Len(t.order)))

\* one leaf moves down from the length bits, the longest below max_length
\* that is in use
MoveLeaf(max_length, s, bits) ==
    [bl_count |-> [s.bl_count EXCEPT ![bits] = @ - 1,
                                     ![bits + 1] = @ + 2,
                                     ![max_length] = @ - 1],
     overflow |-> s.overflow - 2]

\* gen_bitlen: the do-while loop that moves one leaf down per two overflows
FixOverflow(bl_count, overflow, max_length) ==
    Run(LAMBDA s :
                   MoveLeaf(max_length, s,
                       CHOOSE b \in 1..(max_length - 1) :
                           /\ s.bl_count[b] /= 0
                           /\ \A c \in (b + 1)..(max_length - 1) :
                                  s.bl_count[c] = 0),
        LAMBDA s :
                   s.overflow <= 0, [bl_count |-> bl_count, overflow |-> overflow],
            Levels(overflow)).bl_count

\* bl_count after gen_bitlen: the number of leaves of each length
LeafCounts(t, g, max_length) ==
    IF g.overflow > 0
    THEN FixOverflow(Table([b \in 1..max_length |->
                         Cardinality({n \in t.leaves : g.len[n] = b})]),
                     g.overflow, max_length)
    ELSE Table([b \in 1..max_length |->
                   Cardinality({n \in t.leaves : g.len[n] = b})])

\* the number of leaves of length b or longer, for b in 1..max_length + 1
LeavesFrom(bl_count, max_length) ==
    Table([b \in 1..(max_length + 1) |->
        Sum([c \in 1..(max_length + 1 - b) |-> bl_count[b + c - 1]])])

\* gen_bitlen, last loop: the leaves in the order they left the heap take
\* the lengths from max_length down; ranked lists them in that order and
\* upto[b] is the number of leaves of length b or longer
RankedLengths(desc, t, g, ranked, upto) ==
    Table([n \in 0..(desc.elems - 1) |->
        IF n \notin t.leaves THEN 0
        ELSE IF g.overflow > 0
        THEN CHOOSE b \in 1..desc.max_length :
                 /\ upto[b + 1] < (CHOOSE i \in 1..Len(ranked) : ranked[i] = n)
                 /\ (CHOOSE i \in 1..Len(ranked) : ranked[i] = n) <= upto[b]
        ELSE g.len[n]])

\* the extra bits of code n
ExtraBits(desc, n) == IF n >= desc.base THEN desc.extra[n - desc.base + 1] ELSE 0

\* the bits of the leaves under the code lengths code_len, extra bits
\* included
TreeBits(desc, t, ranked, code_len) ==
    Sum([i \in 1..Len(ranked) |->
            t.freq[ranked[i]] * (code_len[ranked[i]] + ExtraBits(desc, ranked[i]))])

\* the code lengths, the largest code in use and what the tree adds to
\* opt_len and static_len, the forced codes left out
TreeResult(desc, t, ranked, lens) ==
    [len        |-> lens,
     max_code   |-> t.max_code,
     opt_len    |-> TreeBits(desc, t, ranked, lens) - Len(t.forced),
     static_len |-> IF desc.stree_len = << >> THEN 0
                    ELSE TreeBits(desc, t, ranked, desc.stree_len)
                         - Sum([i \in 1..Len(t.forced) |->
                                   desc.stree_len[t.forced[i]]])]

RankedTree(desc, t, g, ranked) ==
    TreeResult(desc, t, ranked,
        RankedLengths(desc, t, g, ranked,
            LeavesFrom(LeafCounts(t, g, desc.max_length), desc.max_length)))

JoinedTree(desc, t) ==
    RankedTree(desc, t, gen_bitlen(t, desc.max_length),
               SelectSeq(t.order, LAMBDA n : n < desc.elems))

\* build_tree(s, desc) for the tree desc describes: freq is over
\* 0..elems-1, stree_len the static lengths (or << >>), extra the extra
\* bits of the codes from base on
build_tree(desc) ==
    JoinedTree(desc,
        JoinAll(Heapify(UsedTree(desc,
            {n \in 0..(desc.elems - 1) : desc.freq[n] /= 0}))))

\* gen_codes(tree, max_code, bl_count): the code of each code length, the
\* codes of one length in increasing order.  next_code[bits] =
\* (next_code[bits - 1] + bl_count[bits - 1]) << 1 is the sum of
\* bl_count[b] << (bits - b) over the shorter lengths b.
NextCodes(bl_count) ==
    Table([bits \in 1..MAX_BITS |->
        Sum([b \in 1..(bits - 1) |-> bl_count[b] * (2 ^ (bits - b))])])

RankedCodes(lens, max_code, next_code) ==
    Table([n \in 0..max_code |->
        IF lens[n] = 0 THEN 0
        ELSE next_code[lens[n]]
             + Cardinality({m \in 0..(n - 1) : lens[m] = lens[n]})])

gen_codes(lens, max_code) ==
    RankedCodes(lens, max_code,
        NextCodes(Table([b \in 1..MAX_BITS |->
                      Cardinality({n \in 0..max_code : lens[n] = b})])))

\* what a run of count lengths curlen writes: items <<code of the bit
\* length tree, value of its extra bits>> (-1 without extra bits)
RunItems(s, curlen, count) ==
    IF count < s.min_count THEN Repeat(<<curlen, -1>>, count)
    ELSE IF curlen /= 0
         THEN IF curlen /= s.prevlen
              THEN <<<<curlen, -1>>, <<REP_3_6, count - 1 - 3>>>>
              ELSE <<<<REP_3_6, count - 3>>>>
    ELSE IF count <= 10 THEN <<<<REPZ_3_10, count - 3>>>>
    ELSE <<<<REPZ_11_138, count - 11>>>>

ScanStep(s, curlen, nextlen) ==
    IF s.count + 1 < s.max_count /\ curlen = nextlen
    THEN [s EXCEPT !.n = @ + 1, !.count = @ + 1]
    ELSE [n |-> s.n + 1, count |-> 0, prevlen |-> curlen,
          max_count |-> IF nextlen = 0 THEN 138
                        ELSE IF curlen = nextlen THEN 6 ELSE 7,
          min_count |-> IF nextlen = 0 THEN 3
                        ELSE IF curlen = nextlen THEN 3 ELSE 4,
          out |-> s.out \o RunItems(s, curlen, s.count + 1)]

\* one turn of the loop of scan_tree and send_tree over the lengths of the
\* codes 0..max_code
send_tree_step(lens, max_code, s) ==
    ScanStep(s, lens[s.n], IF s.n + 1 <= max_code THEN lens[s.n + 1] ELSE -1)

send_tree(lens, max_code) ==
    Run(LAMBDA s :
                   send_tree_step(lens, max_code, s),
        LAMBDA s :
                   s.n > max_code,
            [n |-> 0, count |-> 0, prevlen |-> -1,
             max_count |-> IF lens[0] = 0 THEN 138 ELSE 7,
             min_count |-> IF lens[0] = 0 THEN 3 ELSE 4,
             out |-> << >>], Levels(max_code + 1)).out

\* send_bits(s, value, length): the bits of value, least significant first
send_bits(value, length) == [i \in 1..length |-> (value \div (2 ^ (i - 1))) % 2]

\* send_code(s, c, tree): a code goes out most significant bit first
send_code(code, length) ==
    [i \in 1..length |-> (code \div (2 ^ (length - i))) % 2]

\* bit k of a bit string that zero bits follow
BitOrZero(bits, k) == IF k <= Len(bits) THEN bits[k] ELSE 0

\* bi_windup: the bits in bytes, least significant bit first, the last
\* byte filled with zero bits
PackBits(bits) ==
    [i \in 1..((Len(bits) + 7) \div 8) |->
        Sum([j \in 1..8 |-> BitOrZero(bits, 8 * i - 8 + j) * (2 ^ (j - 1))])]

\* the code of the literal/length tree that a symbol tallies
LCodeOf(sym) ==
    IF sym[1] = 0 THEN sym[2] ELSE length_code(sym[2] - MIN_MATCH) + LITERALS + 1

\* a match of length lc + MIN_MATCH at distance d + 1, c and dc being its
\* length code and its distance code
SendMatch(t, lc, c, d, dc) ==
    send_code(t.lcode[c + LITERALS + 1], t.llen[c + LITERALS + 1])
    \o send_bits(lc - base_length[c + 1], extra_lbits[c + 1])
    \o send_code(t.dcode[dc], t.dlen[dc])
    \o send_bits(d - base_dist[dc + 1], extra_dbits[dc + 1])

SendSymbol(t, sym) ==
    IF sym[1] = 0 THEN send_code(t.lcode[sym[2]], t.llen[sym[2]])
    ELSE SendMatch(t, sym[2] - MIN_MATCH, length_code(sym[2] - MIN_MATCH),
                   sym[1] - 1, d_code(sym[1] - 1))

\* compress_block(s, ltree, dtree): the symbols, then END_BLOCK; t holds
\* the lengths and the codes of the two trees
compress_block(syms, t) ==
    Concat([i \in 1..Len(syms) |-> SendSymbol(t, syms[i])])
    \o send_code(t.lcode[END_BLOCK], t.llen[END_BLOCK])

\* the lengths and the codes of a literal/length tree and a distance tree
TreeCodes(llen, lmax, dlen, dmax) ==
    [llen |-> llen, lcode |-> gen_codes(llen, lmax),
     dlen |-> dlen, dcode |-> gen_codes(dlen, dmax)]

\* static_ltree and static_dtree
static_codes == TreeCodes(static_l_len, L_CODES + 1, static_d_len, D_CODES - 1)

\* how often each of the codes 0..elems-1 is in the sequence codes
CountCodes(codes, elems) ==
    Table([c \in 0..(elems - 1) |->
        Cardinality({i \in 1..Len(codes) : codes[i] = c})])

\* the items that send the literal/length tree and the distance tree
TreeItems(trees) ==
    send_tree(trees[1].len, trees[1].max_code)
    \o send_tree(trees[2].len, trees[2].max_code)

\* how often each code of the bit length tree is in the items
ItemCodes(items) ==
    CountCodes(Table([i \in 1..Len(items) |-> items[i][1]]), BL_CODES)

\* the trees of a block in the order build_tree makes them: 1 the literal
\* and length tree and 2 the distance tree of the symbols syms, 3 the bit
\* length tree of the items that send these two
TreeDesc(k, syms, trees) ==
    IF k = 1
    THEN [freq |-> [CountCodes(Table([i \in 1..Len(syms) |-> LCodeOf(syms[i])]),
                               L_CODES)
                    EXCEPT ![END_BLOCK] = 1],
          elems |-> L_CODES, stree_len |-> static_l_len, extra |-> extra_lbits,
          base |-> LITERALS + 1, max_length |-> MAX_BITS]
    ELSE IF k = 2
    THEN [freq |-> CountCodes(Table([i \in 1..Len(syms) |->
                                  IF syms[i][1] = 0 THEN -1
                                  ELSE d_code(syms[i][1] - 1)]), D_CODES),
          elems |-> D_CODES, stree_len |-> static_d_len, extra |-> extra_dbits,
          base |-> 0, max_length |-> MAX_BITS]
    ELSE [freq |-> ItemCodes(TreeItems(trees)),
          elems |-> BL_CODES, stree_len |-> << >>, extra |-> extra_blbits,
          base |-> 0, max_length |-> MAX_BL_BITS]

\* build_bl_tree: the last code of bl_order in use, 3 at least
MaxBlIndex(bl) ==
    Max(3, MaxOf({r \in 4..BL_CODES : bl.len[bl_order[r]] /= 0}) - 1)

\* an item of send_tree under the codes blcode of the bit length tree
SendItem(bl, blcode, x) ==
    send_code(blcode[x[1]], bl.len[x[1]])
    \o (IF x[1] = REP_3_6 THEN send_bits(x[2], 2)
        ELSE IF x[1] = REPZ_3_10 THEN send_bits(x[2], 3)
        ELSE IF x[1] = REPZ_11_138 THEN send_bits(x[2], 7)
        ELSE << >>)

\* send_all_trees: the counts, the lengths of the bit length codes in
\* bl_order, the two trees
send_all_trees(b, blcode) ==
    send_bits(b.l.max_code + 1 - 257, 5)
    \o send_bits(b.d.max_code + 1 - 1, 5)
    \o send_bits(b.max_blindex + 1 - 4, 4)
    \o Concat([r \in 1..(b.max_blindex + 1) |->
                  send_bits(b.bl.len[bl_order[r]], 3)])
    \o Concat([i \in 1..Len(b.items) |-> SendItem(b.bl, blcode, b.items[i])])

\* the block of the symbols b.syms, of the three kinds the cheapest: a
\* stored block (_tr_stored_block), a block under the static trees or one
\* under the trees of b; each is the last block
WriteBlock(raw, b, opt_lenb, static_lenb) ==
    IF Len(raw) + 4 <= opt_lenb
    THEN <<1, Len(raw) % 256, Len(raw) \div 256,
           (65535 - Len(raw)) % 256, (65535 - Len(raw)) \div 256>> \o raw
    ELSE IF static_lenb = opt_lenb
    THEN PackBits(send_bits(3, 3) \o compress_block(b.syms, static_codes))
    ELSE PackBits(send_bits(5, 3)
                  \o send_all_trees(b, gen_codes(b.bl.len, b.bl.max_code))
                  \o compress_block(b.syms,
                         TreeCodes(b.l.len, b.l.max_code, b.d.len, b.d.max_code)))

\* opt_lenb and static_lenb of _tr_flush_block
CheapestBlock(raw, b, opt_len, static_len) ==
    WriteBlock(raw, b,
               Min((opt_len + 3 + 7) \div 8, (static_len + 3 + 7) \div 8),
               (static_len + 3 + 7) \div 8)

MeasuredBlock(raw, b) ==
    CheapestBlock(raw, b,
        b.l.opt_len + b.d.opt_len + b.bl.opt_len
        + 3 * (b.max_blindex + 1) + 5 + 5 + 4,
        b.l.static_len + b.d.static_len)

BlockTrees(syms, trees) ==
    [syms |-> syms, l |-> trees[1], d |-> trees[2], items |-> TreeItems(trees),
     bl |-> trees[3], max_blindex |-> MaxBlIndex(trees[3])]

RECURSIVE BuildTrees(_, _)
\* the three build_tree calls of _tr_flush_block and build_bl_tree, the
\* third after scan_tree has gone over the first two trees
BuildTrees(syms, trees) ==
    IF Len(trees) = 3 THEN trees
    ELSE BuildTrees(syms, Append(trees,
                        build_tree(TreeDesc(Len(trees) + 1, syms, trees))))

\* _tr_flush_block(s, buf, stored_len, last = 1) for the symbols syms of
\* the input raw
tr_flush_block(raw, syms) ==
    MeasuredBlock(raw, BlockTrees(syms, BuildTrees(syms, << >>)))

\* deflate(strm, Z_FINISH) after one deflateInit at the default level: the
\* body of the stream, one last block
deflate(raw) == tr_flush_block(raw, deflate_slow(raw))

\* zlib.compress(raw): the header of a 32K window at the default level
\* (78 9c), the deflate stream, Adler-32 of raw most significant byte first
zlib_compress(raw) == <<120, 156>> \o deflate(raw) \o PackBE32(Adler32(raw))

(***************************************************************************)
(* zlib.decompress: inflate of a zlib stream given at once, as zlib 1.2.13 *)
(* does it.  Every way inflate fails (a bad header, a preset dictionary,   *)
(* an invalid block, code or distance, the end of the input before the end *)
(* of the stream, a failed check) raises zlib.error.  A bit position       *)
(* counts the bits of data from 0, the bits of each byte from the least    *)
(* significant one.                                                        *)
(***************************************************************************)
\* the bit at position k
BitAt(data, k) == (data[(k \div 8) + 1] \div (2 ^ (k % 8))) % 2

\* BITS(n) at position k: n bits, the first one the least significant
BitsAt(data, k, n) == Sum([j \in 1..n |-> BitAt(data, k + j - 1) * (2 ^ (j - 1))])

\* the n bits at position k as a Huffman code: the first one the most
\* significant
CodeAt(data, k, n) == Sum([j \in 1..n |-> BitAt(data, k + j - 1) * (2 ^ (n - j))])

\* the symbols of each code length, in increasing order
SymbolsOf(lens) ==
    Table([len \in 1..MAX_BITS |->
        SelectSeq([i \in 1..Len(lens) |-> i - 1],
                  LAMBDA sym : lens[sym + 1] = len)])

\* left, the codes that remain after those of the lengths 1..len, is
\* never negative, and is 0 in the end unless the set is empty or (for
\* other types than CODES) has a single code of length 1
CompleteSet(count, first, is_codes) ==
    \/ \A len \in 1..MAX_BITS : count[len] = 0
    \/ /\ \A len \in 1..MAX_BITS : (2 ^ len) - (first[len] + count[len]) >= 0
       /\ \/ (2 ^ MAX_BITS) - (first[MAX_BITS] + count[MAX_BITS]) = 0
          \/ ~is_codes /\ {len \in 1..MAX_BITS : count[len] /= 0} = {1}

CodeTable(lens, is_codes, count, first) ==
    [count |-> count, first |-> first, syms |-> SymbolsOf(lens),
     ok |-> CompleteSet(count, first, is_codes)]

CountedTable(lens, is_codes, count) ==
    CodeTable(lens, is_codes, count, NextCodes(count))

\* inflate_table(type, lens, codes, ...): the canonical code of the code
\* lengths lens (of the symbols 0..Len(lens)-1).  ok is FALSE for a set
\* of lengths that is over-subscribed, and for one that is incomplete
\* unless it is empty or (for other types than CODES) has a single code
\* of length 1.
inflate_table(lens, is_codes) ==
    CountedTable(lens, is_codes,
        Table([len \in 1..MAX_BITS |->
                  Cardinality({i \in 1..Len(lens) : lens[i] = len})]))

\* a code of the table of length len is at position pos
CodeFits(tbl, data, pos, len, code) ==
    /\ pos + len <= 8 * Len(data)
    /\ tbl.count[len] /= 0
    /\ code >= tbl.first[len]
    /\ code < tbl.first[len] + tbl.count[len]

DecodedAt(tbl, data, pos, len) ==
    [ok |-> TRUE, bits |-> len,
     sym |-> tbl.syms[len][CodeAt(data, pos, len) - tbl.first[len] + 1]]

DecodeAmong(tbl, data, pos, lens) ==
    IF lens = {} THEN [ok |-> FALSE, sym |-> 0, bits |-> 0]
    ELSE DecodedAt(tbl, data, pos, CHOOSE a \in lens : \A b \in lens : a <= b)

\* the symbol whose code starts at position pos: its length is the least
\* one that a code of the table matches; ok is FALSE where no code
\* matches the bits that are left
Decode(tbl, data, pos) ==
    DecodeAmong(tbl, data, pos,
        {len \in 1..MAX_BITS :
            CodeFits(tbl, data, pos, len, CodeAt(data, pos, len))})

\* fixedtables: lencode and distcode
fixed_tables ==
    Table([k \in 1..2 |->
        inflate_table(IF k = 1
                      THEN [i \in 1..(L_CODES + 2) |-> static_l_len[i - 1]]
                      ELSE [i \in 1..(D_CODES + 2) |-> 5], FALSE)])

\* the states of inflate that the model steps through
BadState(s) == [s EXCEPT !.mode = "BAD"]

\* a dynamic block whose header is invalid
DynFailed(pos) ==
    [ok |-> FALSE, pos |-> pos, lencode |-> << >>, distcode |-> << >>]

BadLens(s) == [s EXCEPT !.bad = TRUE]

\* the run of copy lengths len that a repeat code stands for
CopyLens(h, s, next, len, copy) ==
    IF Len(s.lens) + copy > h.nlen + h.ndist THEN BadLens(s)
    ELSE [s EXCEPT !.pos = next, !.lens = @ \o Repeat(len, copy)]

\* the repeat code sym, whose xbits extra bits are at position after
ReadRepeat(data, h, s, sym, after, xbits) ==
    IF \/ after + xbits > 8 * Len(data)
       \/ sym = REP_3_6 /\ s.lens = << >>
    THEN BadLens(s)
    ELSE CopyLens(h, s, after + xbits,
                  IF sym = REP_3_6 THEN s.lens[Len(s.lens)] ELSE 0,
                  (IF sym = REPZ_11_138 THEN 11 ELSE 3)
                  + BitsAt(data, after, xbits))

ReadSym(data, h, s, here) ==
    IF ~here.ok THEN BadLens(s)
    ELSE IF here.sym < REP_3_6
    THEN [s EXCEPT !.pos = s.pos + here.bits, !.lens = Append(@, here.sym)]
    ELSE ReadRepeat(data, h, s, here.sym, s.pos + here.bits,
                    IF here.sym = REP_3_6 THEN 2
                    ELSE IF here.sym = REPZ_3_10 THEN 3 ELSE 7)

\* the CODELENS state: the code lengths of the two trees
ReadLens(data, h, lencode) ==
    Run(LAMBDA s :
                   ReadSym(data, h, s, Decode(lencode, data, s.pos)),
        LAMBDA s :
                   s.bad \/ Len(s.lens) >= h.nlen + h.ndist,
            [pos |-> h.at + 3 * h.ncode, lens |-> << >>, bad |-> FALSE],
            Levels(L_CODES + D_CODES))

DynResult(pos, read, tables) ==
    IF ~tables[1].ok \/ ~tables[2].ok THEN DynFailed(pos)
    ELSE [ok |-> TRUE, pos |-> read.pos,
          lencode |-> tables[1], distcode |-> tables[2]]

DynTables(pos, h, read) ==
    IF read.bad THEN DynFailed(pos)
    ELSE IF read.lens[END_BLOCK + 1] = 0 THEN DynFailed(pos)
    ELSE DynResult(pos, read,
             Table([k \in 1..2 |->
                 inflate_table(IF k = 1 THEN SubSeq(read.lens, 1, h.nlen)
                               ELSE SubSeq(read.lens, h.nlen + 1,
                                           h.nlen + h.ndist), FALSE)]))

DynRead(data, pos, h, cl, lencode) ==
    IF ~lencode.ok \/ \A sym \in 0..(BL_CODES - 1) : cl[sym] = 0
    THEN DynFailed(pos)
    ELSE DynTables(pos, h, ReadLens(data, h, lencode))

\* the LENLENS state: the lengths cl of the codes of the code lengths
DynCodes(data, pos, h, cl) ==
    DynRead(data, pos, h, cl,
            inflate_table([i \in 1..BL_CODES |-> cl[i - 1]], TRUE))

DynLengths(data, pos, h) ==
    IF h.nlen > L_CODES \/ h.ndist > D_CODES THEN DynFailed(pos)
    ELSE IF h.at + 3 * h.ncode > 8 * Len(data) THEN DynFailed(pos)
    ELSE DynCodes(data, pos, h,
             Table([sym \in 0..(BL_CODES - 1) |->
                 IF \A k \in 1..h.ncode : bl_order[k] /= sym THEN 0
                 ELSE BitsAt(data,
                          h.at + 3 * ((CHOOSE k \in 1..h.ncode :
                                           bl_order[k] = sym) - 1), 3)]))

\* the TABLE, LENLENS and CODELENS states: the code lengths of a dynamic
\* block, read from position pos, and the two tables made of them
inflate_dynamic(data, pos) ==
    IF pos + 14 > 8 * Len(data) THEN DynFailed(pos)
    ELSE DynLengths(data, pos,
             [nlen  |-> BitsAt(data, pos, 5) + 257,
              ndist |-> BitsAt(data, pos + 5, 5) + 1,
              ncode |-> BitsAt(data, pos + 10, 4) + 4,
              at    |-> pos + 14])

\* the STORED .. COPY states: len bytes after the lengths at the bit
\* position from
StoredCopy(data, s, s1, from, len) ==
    IF BitsAt(data, from + 16, 16) /= 65535 - len THEN BadState(s)
    ELSE IF from + 32 + 8 * len > 8 * Len(data) THEN BadState(s)
    ELSE [s1 EXCEPT !.pos = from + 32 + 8 * len,
                    !.out = @ \o SubSeq(data, (from \div 8) + 5,
                                        (from \div 8) + 4 + len)]

StoredBlock(data, s, s1, from) ==
    IF from + 32 > 8 * Len(data) THEN BadState(s)
    ELSE StoredCopy(data, s, s1, from, BitsAt(data, from, 16))

DynamicBlock(s, s1, dyn) ==
    IF ~dyn.ok THEN BadState(s)
    ELSE [s1 EXCEPT !.pos = dyn.pos, !.mode = "LEN",
                    !.lencode = dyn.lencode, !.distcode = dyn.distcode]

\* s1 is s after the bit that tells the last block; BYTEBITS() before a
\* stored block goes to the next byte boundary
BlockOfType(data, s, s1, type) ==
    IF type = 0
    THEN StoredBlock(data, s, s1, ((s.pos + 3 + 7) \div 8) * 8)
    ELSE IF type = 1
    THEN [s1 EXCEPT !.pos = s.pos + 3, !.mode = "LEN",
                    !.lencode = fixed_tables[1], !.distcode = fixed_tables[2]]
    ELSE IF type = 2
    THEN DynamicBlock(s, s1, inflate_dynamic(data, s.pos + 3))
    ELSE BadState(s)

\* the TYPE state: the header of the next block, and the whole of a
\* stored block
inflate_type(data, s) ==
    IF s.last THEN [s EXCEPT !.mode = "CHECK"]
    ELSE IF s.pos + 3 > 8 * Len(data) THEN BadState(s)
    ELSE BlockOfType(data, s, [s EXCEPT !.last = (BitAt(data, s.pos) = 1)],
                     BitsAt(data, s.pos + 1, 2))

\* the MATCH state: length bytes from dist bytes back
CopyMatch(s, length, dist, next) ==
    IF dist > Len(s.out) THEN BadState(s)
    ELSE [s EXCEPT !.pos = next,
                   !.out = @ \o [k \in 1..length |->
                                    s.out[Len(s.out) - dist + ((k - 1) % dist) + 1]]]

\* the DISTEXT state: the extra bits of the distance code dsym are at p3
DistExtra(data, s, length, p3, dsym) ==
    IF p3 + extra_dbits[dsym + 1] > 8 * Len(data) THEN BadState(s)
    ELSE CopyMatch(s, length,
                   base_dist[dsym + 1] + 1
                   + BitsAt(data, p3, extra_dbits[dsym + 1]),
                   p3 + extra_dbits[dsym + 1])

\* the DIST state
DistCode(data, s, length, p2, dhere) ==
    IF ~dhere.ok THEN BadState(s)
    ELSE IF dhere.sym >= D_CODES THEN BadState(s)
    ELSE DistExtra(data, s, length, p2 + dhere.bits, dhere.sym)

\* the LENEXT state: the extra bits of the length code lc are at p1
LenExtra(data, s, p1, lc) ==
    IF p1 + extra_lbits[lc + 1] > 8 * Len(data) THEN BadState(s)
    ELSE DistCode(data, s,
                  base_length[lc + 1] + MIN_MATCH
                  + BitsAt(data, p1, extra_lbits[lc + 1]),
                  p1 + extra_lbits[lc + 1],
                  Decode(s.distcode, data, p1 + extra_lbits[lc + 1]))

LenSym(data, s, here) ==
    IF ~here.ok THEN BadState(s)
    ELSE IF here.sym < LITERALS
    THEN [s EXCEPT !.pos = s.pos + here.bits, !.out = Append(@, here.sym)]
    ELSE IF here.sym = END_BLOCK
    THEN [s EXCEPT !.pos = s.pos + here.bits, !.mode = "TYPE"]
    ELSE IF here.sym >= L_CODES THEN BadState(s)
    ELSE LenExtra(data, s, s.pos + here.bits, here.sym - LITERALS - 1)

\* the LEN .. MATCH states: one literal, one end of block or one match
inflate_len(data, s) == LenSym(data, s, Decode(s.lencode, data, s.pos))

\* inflate until the end of the last block
inflate(data, start) ==
    Run(LAMBDA s : IF s.mode = "TYPE" THEN inflate_type(data, s)
                   ELSE inflate_len(data, s),
        LAMBDA s : s.mode \in {"CHECK", "BAD"},
        [pos |-> start, out |-> << >>, last |-> FALSE, mode |-> "TYPE",
         lencode |-> << >>, distcode |-> << >>],
        Levels(8 * Len(data)))

InflateFailed == [ok |-> FALSE, val |-> << >>]

\* the CHECK state: BYTEBITS(), then the Adler-32 of the output at byte
\* check
CheckedOutput(data, end, check) ==
    IF check + 4 > Len(data) THEN InflateFailed
    ELSE IF SubSeq(data, check + 1, check + 4) /= PackBE32(Adler32(end.out))
    THEN InflateFailed
    ELSE [ok |-> TRUE, val |-> end.out]

InflatedStream(data, end) ==
    IF end.mode = "BAD" THEN InflateFailed
    ELSE CheckedOutput(data, end, (end.pos + 7) \div 8)

\* zlib.decompress(data): ok is FALSE where it raises zlib.error; bytes
\* after the end of the stream are ignored
zlib_decompress(data) ==
    IF Len(data) < 2 THEN InflateFailed
    ELSE IF (256 * data[1] + data[2]) % 31 /= 0 THEN InflateFailed
    ELSE IF data[1] % 16 /= 8 THEN InflateFailed               \* Z_DEFLATED
    ELSE IF data[1] \div 16 > 7 THEN InflateFailed              \* window size
    ELSE IF (data[2] \div 32) % 2 = 1 THEN InflateFailed        \* Z_NEED_DICT
    ELSE InflatedStream(data, inflate(data, 16))

\* '%04x' % n for a 16-bit n
Hex16(n) ==
    <<HexDigits[(n \div 4096) + 1], HexDigits[((n \div 256) % 16) + 1],
      HexDigits[((n \div 16) % 16) + 1], HexDigits[(n % 16) + 1]>>

\* '%08x' % w
Hex08(w) == Hex16(w.hi) \o Hex16(w.lo)

(***************************************************************************)
(* xml.dom.minidom: the writer.                                            *)
(***************************************************************************)
EscapeChar(c) ==
    IF c = 38 THEN EscAmp
    ELSE IF c = 60 THEN EscLt
    ELSE IF c = 34 THEN EscQuot
    ELSE IF c = 62 THEN EscGt
    ELSE <<c>>

\* minidom._write_data: & < " > are written as entity references
WriteData(s) ==
    IF \A i \in 1..Len(s) : s[i] \notin {38, 60, 34, 62} THEN s
    ELSE Concat([i \in 1..Len(s) |-> EscapeChar(s[i])])

\* ' name="value"'
WriteAttr(name, value) == <<32>> \o name \o <<61, 34>> \o WriteData(value) \o <<34>>

\* the bytes the writer puts out for the characters s, encoding='ascii':
\* a character that ASCII does not have is written as a character
\* reference (errors='xmlcharrefreplace')
EncodeAscii(s) ==
    IF \A k \in 1..Len(s) : s[k] < 128 THEN s
    ELSE Concat([k \in 1..Len(s) |->
             IF s[k] < 128 THEN <<s[k]>> ELSE <<38, 35>> \o Str(s[k]) \o <<59>>])

\* one <Item .../> line of the File element, two indents deep
WriteFileItem(item) ==
    Indent \o Indent \o <<60>> \o TagItem
    \o WriteAttr(AttrName, item.Name) \o WriteAttr(AttrSize, item.Size)
    \o WriteAttr(AttrVersion, item.Version)
    \o WriteAttr(AttrCheckSum, item.CheckSum)
    \o <<47, 62, 10>>

\* Document.toprettyxml(indent='    ', encoding='ascii') of the document
\* that Crc.__init__ builds and Crc.append_entry extends
ToPrettyXml(version_item, items) ==
    EncodeAscii(
        XmlDecl \o <<10>>
        \o <<60>> \o TagFileInfo \o <<62, 10>>
        \o Indent \o <<60>> \o TagVersion \o <<62, 10>>
        \o Indent \o Indent \o <<60>> \o TagItem
           \o WriteAttr(AttrName, version_item) \o <<47, 62, 10>>
        \o Indent \o <<60, 47>> \o TagVersion \o <<62, 10>>
        \o (IF items = << >>
            THEN Indent \o <<60>> \o TagFile \o <<47, 62, 10>>
            ELSE Indent \o <<60>> \o TagFile \o <<62, 10>>
                 \o Concat([i \in 1..Len(items) |-> WriteFileItem(items[i])])
                 \o Indent \o <<60, 47>> \o TagFile \o <<62, 10>>)
        \o <<60, 47>> \o TagFileInfo \o <<62, 10>>)

\* the characters above 127 that can start a name (the Letter class of XML
\* 1.0 within the basic plane, as expat tabulates it), as ranges
NameStartRanges == <<
    192, 214, 216, 246, 248, 305, 308, 318, 321, 328, 330, 382, 384, 451,
    461, 496, 500, 501, 506, 535, 592, 680, 699, 705, 902, 902, 904, 906,
    908, 908, 910, 929, 931, 974, 976, 982, 986, 986, 988, 988, 990, 990,
    992, 992, 994, 1011, 1025, 1036, 1038, 1103, 1105, 1116, 1118, 1153,
    1168, 1220, 1223, 1224, 1227, 1228, 1232, 1259, 1262, 1269, 1272, 1273,
    1329, 1366, 1369, 1369, 1377, 1414, 1488, 1514, 1520, 1522, 1569, 1594,
    1601, 1610, 1649, 1719, 1722, 1726, 1728, 1742, 1744, 1747, 1749, 1749,
    1765, 1766, 2309, 2361, 2365, 2365, 2392, 2401, 2437, 2444, 2447, 2448,
    2451, 2472, 2474, 2480, 2482, 2482, 2486, 2489, 2524, 2525, 2527, 2529,
    2544, 2545, 2565, 2570, 2575, 2576, 2579, 2600, 2602, 2608, 2610, 2611,
    2613, 2614, 2616, 2617, 2649, 2652, 2654, 2654, 2674, 2676, 2693, 2699,
    2701, 2701, 2703, 2705, 2707, 2728, 2730, 2736, 2738, 2739, 2741, 2745,
    2749, 2749, 2784, 2784, 2821, 2828, 2831, 2832, 2835, 2856, 2858, 2864,
    2866, 2867, 2870, 2873, 2877, 2877, 2908, 2909, 2911, 2913, 2949, 2954,
    2958, 2960, 2962, 2965, 2969, 2970, 2972, 2972, 2974, 2975, 2979, 2980,
    2984, 2986, 2990, 2997, 2999, 3001, 3077, 3084, 3086, 3088, 3090, 3112,
    3114, 3123, 3125, 3129, 3168, 3169, 3205, 3212, 3214, 3216, 3218, 3240,
    3242, 3251, 3253, 3257, 3294, 3294, 3296, 3297, 3333, 3340, 3342, 3344,
    3346, 3368, 3370, 3385, 3424, 3425, 3585, 3630, 3632, 3632, 3634, 3635,
    3648, 3653, 3713, 3714, 3716, 3716, 3719, 3720, 3722, 3722, 3725, 3725,
    3732, 3735, 3737, 3743, 3745, 3747, 3749, 3749, 3751, 3751, 3754, 3755,
    3757, 3758, 3760, 3760, 3762, 3763, 3773, 3773, 3776, 3780, 3904, 3911,
    3913, 3945, 4256, 4293, 4304, 4342, 4352, 4352, 4354, 4355, 4357, 4359,
    4361, 4361, 4363, 4364, 4366, 4370, 4412, 4412, 4414, 4414, 4416, 4416,
    4428, 4428, 4430, 4430, 4432, 4432, 4436, 4437, 4441, 4441, 4447, 4449,
    4451, 4451, 4453, 4453, 4455, 4455, 4457, 4457, 4461, 4462, 4466, 4467,
    4469, 4469, 4510, 4510, 4520, 4520, 4523, 4523, 4526, 4527, 4535, 4536,
    4538, 4538, 4540, 4546, 4587, 4587, 4592, 4592, 4601, 4601, 7680, 7835,
    7840, 7929, 7936, 7957, 7960, 7965, 7968, 8005, 8008, 8013, 8016, 8023,
    8025, 8025, 8027, 8027, 8029, 8029, 8031, 8061, 8064, 8116, 8118, 8124,
    8126, 8126, 8130, 8132, 8134, 8140, 8144, 8147, 8150, 8155, 8160, 8172,
    8178, 8180, 8182, 8188, 8486, 8486, 8490, 8491, 8494, 8494, 8576, 8578,
    12295, 12295, 12321, 12329, 12353, 12436, 12449, 12538, 12549, 12588,
    19968, 40869, 44032, 55203>>

\* the characters above 127 that a name can hold after its first
NameOnlyRanges == <<
    183, 183, 720, 721, 768, 837, 864, 865, 903, 903, 1155, 1158, 1425,
    1441, 1443, 1465, 1467, 1469, 1471, 1471, 1473, 1474, 1476, 1476, 1600,
    1600, 1611, 1618, 1632, 1641, 1648, 1648, 1750, 1764, 1767, 1768, 1770,
    1773, 1776, 1785, 2305, 2307, 2364, 2364, 2366, 2381, 2385, 2388, 2402,
    2403, 2406, 2415, 2433, 2435, 2492, 2492, 2494, 2500, 2503, 2504, 2507,
    2509, 2519, 2519, 2530, 2531, 2534, 2543, 2562, 2562, 2620, 2620, 2622,
    2626, 2631, 2632, 2635, 2637, 2662, 2673, 2689, 2691, 2748, 2748, 2750,
    2757, 2759, 2761, 2763, 2765, 2790, 2799, 2817, 2819, 2876, 2876, 2878,
    2883, 2887, 2888, 2891, 2893, 2902, 2903, 2918, 2927, 2946, 2947, 3006,
    3010, 3014, 3016, 3018, 3021, 3031, 3031, 3047, 3055, 3073, 3075, 3134,
    3140, 3142, 3144, 3146, 3149, 3157, 3158, 3174, 3183, 3202, 3203, 3262,
    3268, 3270, 3272, 3274, 3277, 3285, 3286, 3302, 3311, 3330, 3331, 3390,
    3395, 3398, 3400, 3402, 3405, 3415, 3415, 3430, 3439, 3633, 3633, 3636,
    3642, 3654, 3662, 3664, 3673, 3761, 3761, 3764, 3769, 3771, 3772, 3782,
    3782, 3784, 3789, 3792, 3801, 3864, 3865, 3872, 3881, 3893, 3893, 3895,
    3895, 3897, 3897, 3902, 3903, 3953, 3972, 3974, 3979, 3984, 3989, 3991,
    3991, 3993, 4013, 4017, 4023, 4025, 4025, 8400, 8412, 8417, 8417,
    12293, 12293, 12330, 12335, 12337, 12341, 12441, 12442, 12445, 12446,
    12540, 12542>>

(***************************************************************************)
(* xml.dom.minidom.parseString: the expat parser with namespaces, and the  *)
(* document it builds.  A document is held as the sequence of its nodes in *)
(* document order, an element as a "start" and an "end" node around its    *)
(* children.  Characters are code points.                                  *)
(*                                                                         *)
(* The model covers documents in UTF-8 or ASCII that have no document type *)
(* declaration.  For a UTF-16 document, an encoding name other than UTF-8, *)
(* US-ASCII, ascii and UTF-16, or a <!DOCTYPE, the outcome is OutsideModel.*)
(***************************************************************************)
XmlSpace == {32, 9, 10, 13}

LitXmlDeclOpen == <<60, 63, 120, 109, 108>>                 \* <?xml
LitPiOpen      == <<60, 63>>                                \* <?
LitPiClose     == <<63, 62>>                                \* ?>
LitCommentOpen == <<60, 33, 45, 45>>                        \* <!--
LitDashes      == <<45, 45>>                                \* --
LitCommentClose == <<45, 45, 62>>                           \* -->
LitCdataOpen   == <<60, 33, 91, 67, 68, 65, 84, 65, 91>>    \* <![CDATA[
LitCdataClose  == <<93, 93, 62>>                            \* ]]>
LitDoctype     == <<60, 33, 68, 79, 67, 84, 89, 80, 69>>    \* <!DOCTYPE
LitEndOpen     == <<60, 47>>                                \* </
LitEmptyClose  == <<47, 62>>                                \* />
LitXml         == <<120, 109, 108>>                         \* xml
LitXmlns       == <<120, 109, 108, 110, 115>>               \* xmlns
LitVersion     == <<118, 101, 114, 115, 105, 111, 110>>     \* version
LitEncoding    == <<101, 110, 99, 111, 100, 105, 110, 103>> \* encoding
LitStandalone  == <<115, 116, 97, 110, 100, 97, 108, 111, 110, 101>>
LitYes         == <<121, 101, 115>>
LitNo          == <<110, 111>>
LitUtf8        == <<117, 116, 102, 45, 56>>                 \* utf-8
LitUsAscii     == <<117, 115, 45, 97, 115, 99, 105, 105>>   \* us-ascii
LitAscii       == <<97, 115, 99, 105, 105>>                 \* ascii
LitUtf16       == <<117, 116, 102, 45, 49, 54>>             \* utf-16
LitUtf16be     == <<117, 116, 102, 45, 49, 54, 98, 101>>
LitUtf16le     == <<117, 116, 102, 45, 49, 54, 108, 101>>
LitLt          == <<108, 116>>
LitGt          == <<103, 116>>
LitAmp         == <<97, 109, 112>>
LitApos        == <<97, 112, 111, 115>>
LitQuot        == <<113, 117, 111, 116>>
\* http://www.w3.org/XML/1998/namespace
XmlNamespace   ==
    <<104, 116, 116, 112, 58, 47, 47, 119, 119, 119, 46, 119, 51, 46, 111,
      114, 103, 47, 88, 77, 76, 47, 49, 57, 57, 56, 47, 110, 97, 109, 101,
      115, 112, 97, 99, 101>>
\* http://www.w3.org/2000/xmlns/
XmlnsNamespace ==
    <<104, 116, 116, 112, 58, 47, 47, 119, 119, 119, 46, 119, 51, 46, 111,
      114, 103, 47, 50, 48, 48, 48, 47, 120, 109, 108, 110, 115, 47>>

\* the Char production of XML 1.0
IsChar(c) ==
    \/ c \in {9, 10, 13}
    \/ (c >= 32 /\ c <= 55295)
    \/ (c >= 57344 /\ c <= 65533)
    \/ (c >= 65536 /\ c <= 1114111)

\* c is in one of the ranges, which are given as first, last, first, last, ...
InRanges(c, ranges) ==
    \E k \in 1..(Len(ranges) \div 2) : ranges[2 * k - 1] <= c /\ c <= ranges[2 * k]

\* a character a name can start with; the colon is not one, the parser
\* being namespace aware
IsNameStart(c) ==
    IF c < 128 THEN (c >= 65 /\ c <= 90) \/ (c >= 97 /\ c <= 122) \/ c = 95
    ELSE InRanges(c, NameStartRanges)

IsNameChar(c) ==
    \/ IsNameStart(c)
    \/ IF c < 128 THEN (c >= 48 /\ c <= 57) \/ c \in {45, 46}
       ELSE InRanges(c, NameOnlyRanges)

\* s with its capital letters A-Z made small
Lower(s) == [i \in 1..Len(s) |-> IF s[i] >= 65 /\ s[i] <= 90 THEN s[i] + 32 ELSE s[i]]

\* pat is in s at position i
StartsWith(s, i, pat) ==
    /\ i + Len(pat) - 1 <= Len(s)
    /\ \A k \in 1..Len(pat) : s[i + k - 1] = pat[k]

\* the least element of a set of numbers that is not empty
Least(S) == CHOOSE a \in S : \A b \in S : a <= b

\* the first position from i on where pat is in s, 0 if there is none
Find(s, pat, i) ==
    IF \E j \in i..Len(s) : StartsWith(s, j, pat)
    THEN Least({j \in i..Len(s) : StartsWith(s, j, pat)})
    ELSE 0

\* the first position from p on, below end, that holds no blank; end if
\* there is none
SkipS(s, p, end) == Least({k \in p..end : k = end \/ s[k] \notin XmlSpace})

\* the first position from p on, below end, that holds no name character
\* (colons count as name characters where colons holds); end if there is none
SkipName(s, p, end, colons) ==
    Least({k \in p..end : k = end \/ ~(IsNameChar(s[k]) \/ (colons /\ s[k] = 58))})

\* the number of bytes that follow the first byte c of a UTF-8 sequence, 4
\* for a byte no sequence starts with
Utf8Trail(c) ==
    IF c < 128 THEN 0
    ELSE IF c >= 194 /\ c <= 223 THEN 1
    ELSE IF c >= 224 /\ c <= 239 THEN 2
    ELSE IF c >= 240 /\ c <= 244 THEN 3
    ELSE 4

\* the code point v of a sequence of k + 1 bytes, which takes no fewer
\* bytes, is no surrogate and is 10FFFF at most
Utf8Char(s, k, v) ==
    IF v >= <<0, 128, 2048, 65536>>[k + 1] /\ v <= 1114111
       /\ ~(v >= 55296 /\ v <= 57343)
    THEN [i |-> s.i + k + 1, out |-> Append(s.out, v), ok |-> TRUE]
    ELSE [s EXCEPT !.ok = FALSE]

\* the sequence of the first byte c and k more, each of them 10xxxxxx
Utf8Seq(b, s, c, k) ==
    IF /\ k < 4
       /\ s.i + k <= Len(b)
       /\ \A j \in 1..k : b[s.i + j] >= 128 /\ b[s.i + j] <= 191
    THEN Utf8Char(s, k,
             (c - <<0, 192, 224, 240>>[k + 1]) * (64 ^ k)
             + Sum([j \in 1..k |-> (b[s.i + j] - 128) * (64 ^ (k - j))]))
    ELSE [s EXCEPT !.ok = FALSE]

\* the code points of the UTF-8 bytes b, ok FALSE where expat finds a
\* malformed sequence
Utf8Step(b, s) == Utf8Seq(b, s, b[s.i], Utf8Trail(b[s.i]))

Utf8Result(end) == [ok |-> end.ok, val |-> end.out]

Utf8Decode(b) ==
    Utf8Result(Run(LAMBDA s : Utf8Step(b, s),
                   LAMBDA s : ~s.ok \/ s.i > Len(b),
                   [i |-> 1, out |-> << >>, ok |-> TRUE], Levels(Len(b))))

\* CR LF and CR become LF, as expat reports character data
NormalizeLines(s) ==
    Concat([k \in 1..Len(s) |->
        IF s[k] = 13 THEN <<10>>
        ELSE IF s[k] = 10 /\ k > 1 /\ s[k - 1] = 13 THEN << >>
        ELSE <<s[k]>>])

(* the XML declaration *)
PseudoFail == [ok |-> FALSE, named |-> FALSE, name |-> << >>, val |-> << >>, next |-> 0]

PseudoNone(p) == [ok |-> TRUE, named |-> FALSE, name |-> << >>, val |-> << >>, next |-> p]

IsDeclValueChar(c) ==
    \/ (c >= 97 /\ c <= 122) \/ (c >= 65 /\ c <= 90) \/ (c >= 48 /\ c <= 57)
    \/ c \in {46, 45, 95}

\* the value between the quote at qp and the one at ve
PseudoValue(b, ns, ne, qp, ve, end) ==
    IF ve = end THEN PseudoFail
    ELSE IF b[ve] /= b[qp] THEN PseudoFail
    ELSE [ok |-> TRUE, named |-> TRUE, name |-> SubSeq(b, ns, ne - 1),
          val |-> SubSeq(b, qp + 1, ve - 1), next |-> ve + 1]

\* the opening quote is at qp
PseudoQuote(b, ns, ne, qp, end) ==
    IF qp = end THEN PseudoFail
    ELSE IF b[qp] \notin {34, 39} THEN PseudoFail
    ELSE PseudoValue(b, ns, ne, qp,
             Least({k \in (qp + 1)..end : k = end \/ ~IsDeclValueChar(b[k])}),
             end)

\* the name is at ns..ne-1, and the '=' at eq
PseudoEq(b, ns, ne, eq, end) ==
    IF ne = end \/ b[ne] >= 128 \/ eq = end THEN PseudoFail
    ELSE IF b[eq] /= 61 \/ ne = ns THEN PseudoFail
    ELSE PseudoQuote(b, ns, ne, SkipS(b, eq + 1, end), end)

PseudoNameEnd(b, ns, ne, end) == PseudoEq(b, ns, ne, SkipS(b, ne, end), end)

PseudoName(b, ns, end) ==
    IF ns = end THEN PseudoNone(ns)
    ELSE PseudoNameEnd(b, ns,
             Least({k \in ns..end :
                       k = end \/ b[k] >= 128 \/ b[k] = 61 \/ b[k] \in XmlSpace}),
             end)

\* expat's parsePseudoAttribute: one name="value" of the declaration that
\* ends below end, read from p
PseudoAttr(b, p, end) ==
    IF p = end THEN PseudoNone(p)
    ELSE IF b[p] \notin XmlSpace THEN PseudoFail
    ELSE PseudoName(b, SkipS(b, p, end), end)

DeclFail == [err |-> "ExpatError", enc |-> << >>, next |-> 0]

\* the declaration that ends at stop names the encoding enc
DeclDone(enc, stop) == [err |-> "", enc |-> enc, next |-> stop + 2]

\* the last pseudo-attribute there can be is standalone
DeclStandalone(b, stop, enc, last) ==
    IF last.name /= LitStandalone THEN DeclFail
    ELSE IF last.val \notin {LitYes, LitNo} THEN DeclFail
    ELSE IF SkipS(b, last.next, stop) /= stop THEN DeclFail
    ELSE DeclDone(enc, stop)

\* a3 is what follows the encoding enc
DeclThird(b, stop, enc, a3) ==
    IF ~a3.ok THEN DeclFail
    ELSE IF ~a3.named THEN DeclDone(enc, stop)
    ELSE DeclStandalone(b, stop, enc, a3)

\* a2 is what follows the version
DeclSecond(b, stop, a2) ==
    IF ~a2.ok THEN DeclFail
    ELSE IF ~a2.named THEN DeclDone(<< >>, stop)
    ELSE IF a2.name = LitEncoding
    THEN IF \/ a2.val = << >>
            \/ ~IsDeclValueChar(a2.val[1])
            \/ a2.val[1] \in 48..57
            \/ a2.val[1] \in {46, 45, 95}
         THEN DeclFail
         ELSE DeclThird(b, stop, a2.val, PseudoAttr(b, a2.next, stop))
    ELSE DeclStandalone(b, stop, << >>, a2)

\* a1 is the first pseudo-attribute, which is the version
DeclVersion(b, stop, a1) ==
    IF ~a1.ok \/ ~a1.named THEN DeclFail
    ELSE IF a1.name /= LitVersion THEN DeclFail
    ELSE DeclSecond(b, stop, PseudoAttr(b, a1.next, stop))

\* the declaration goes from after to the '?>' at stop
DeclUntil(b, after, stop) ==
    IF stop = 0 THEN DeclFail
    ELSE IF stop > after /\ b[after] \notin XmlSpace THEN DeclFail
    ELSE DeclVersion(b, stop, PseudoAttr(b, after, stop))

\* the declaration at the head of the bytes b, which starts at first: the
\* encoding it names (empty if it names none) and where the document goes
\* on.  A document without declaration goes on at first.
XmlDecl_parse(b, first) ==
    IF ~StartsWith(b, first, LitXmlDeclOpen)
    THEN [err |-> "", enc |-> << >>, next |-> first]
    ELSE IF first + 5 <= Len(b)
            /\ (b[first + 5] >= 128 \/ IsNameChar(b[first + 5])
                \/ b[first + 5] = 58)
    THEN [err |-> "", enc |-> << >>, next |-> first]
    ELSE DeclUntil(b, first + 5, Find(b, LitPiClose, first + 5))

(* references *)
RefFail == [ok |-> FALSE, ch |-> 0, next |-> 0]

IsDigit(c) == c >= 48 /\ c <= 57

IsHexDigit(c) == IsDigit(c) \/ (c >= 97 /\ c <= 102) \/ (c >= 65 /\ c <= 70)

DigitVal(c) == IF c <= 57 THEN c - 48 ELSE IF c >= 97 THEN c - 87 ELSE c - 55

\* the number the digits sig, which start with no 0, write in the base
SigNumber(sig, base) ==
    IF Len(sig) > 7 THEN 1114112
    ELSE Min(1114112,
             Sum([k \in 1..Len(sig) |->
                     DigitVal(sig[k]) * base ^ (Len(sig) - k)]))

\* the number the digits ds write in the base, 1114112 for any number that
\* is no code point
CharNumber(ds, base) ==
    SigNumber(SubSeq(ds, Least({k \in 1..(Len(ds) + 1) :
                                   k = Len(ds) + 1 \/ ds[k] /= 48}), Len(ds)),
              base)

\* the reference stands for the character ch
RefTo(ch, next) == [ok |-> TRUE, ch |-> ch, next |-> next]

CharRefTo(v, next) == IF ~IsChar(v) THEN RefFail ELSE RefTo(v, next)

\* a character reference of the digits ds
CharRef(ds, hex, next) ==
    IF ds = << >> THEN RefFail
    ELSE IF \E k \in 1..Len(ds) :
                IF hex THEN ~IsHexDigit(ds[k]) ELSE ~IsDigit(ds[k])
    THEN RefFail
    ELSE CharRefTo(CharNumber(ds, IF hex THEN 16 ELSE 10), next)

HexRef(body, hex, next) ==
    CharRef(SubSeq(body, IF hex THEN 3 ELSE 2, Len(body)), hex, next)

\* the reference of what stands between '&' and ';'
RefBody(body, next) ==
    IF body /= << >> /\ body[1] = 35
    THEN HexRef(body, Len(body) >= 2 /\ body[2] = 120, next)
    ELSE IF body = LitLt THEN RefTo(60, next)
    ELSE IF body = LitGt THEN RefTo(62, next)
    ELSE IF body = LitAmp THEN RefTo(38, next)
    ELSE IF body = LitApos THEN RefTo(39, next)
    ELSE IF body = LitQuot THEN RefTo(34, next)
    ELSE RefFail

RefUntil(cps, i, semi) ==
    IF semi = 0 THEN RefFail
    ELSE RefBody(SubSeq(cps, i + 1, semi - 1), semi + 1)

\* the reference at the '&' of position i: the character it stands for
ScanRef(cps, i) == RefUntil(cps, i, Find(cps, <<59>>, i))

(* names and attributes *)
\* the name stops before a colon that no name start follows, and that is
\* an invalid token
QNameLocal(cps, end, first) ==
    IF first + 1 > Len(cps) THEN 0
    ELSE IF ~IsNameStart(cps[first + 1]) THEN 0
    ELSE end

QNameColons(cps, end, colons) ==
    IF colons = {} THEN end
    ELSE IF Cardinality(colons) > 1 THEN 0
    ELSE QNameLocal(cps, end, Least(colons))

QNameUntil(cps, i, end) ==
    QNameColons(cps, end, {k \in i..(end - 1) : cps[k] = 58})

\* where the qualified name that starts at i ends (the position after it):
\* name characters with at most one colon, which a name start follows; 0
\* where expat finds an invalid token
ScanQName(cps, i) ==
    IF i > Len(cps) THEN 0
    ELSE IF ~IsNameStart(cps[i]) THEN 0
    ELSE QNameUntil(cps, i, SkipName(cps, i, Len(cps) + 1, TRUE))

\* position k of r is inside a reference
InsideRef(r, k) ==
    \E a \in 1..(k - 1) : r[a] = 38 /\ \A m \in (a + 1)..(k - 1) : r[m] /= 59

\* the value of an attribute as expat normalizes it: r is what stands
\* between the quotes, with valid references and no '<'
AttrValue(r) ==
    Concat([k \in 1..Len(r) |->
        IF r[k] = 38 THEN <<ScanRef(r, k).ch>>
        ELSE IF InsideRef(r, k) THEN << >>
        ELSE IF r[k] = 10 /\ k > 1 /\ r[k - 1] = 13 THEN << >>
        ELSE IF r[k] \in {9, 10, 13} THEN <<32>>
        ELSE <<r[k]>>])

AttrFail == [ok |-> FALSE, name |-> << >>, value |-> << >>, next |-> 0]

\* r is what stands between the quotes
AttrRaw(cps, i, ne, r, next) ==
    IF \E k \in 1..Len(r) : r[k] = 60 \/ (r[k] = 38 /\ ~ScanRef(r, k).ok)
    THEN AttrFail
    ELSE [ok |-> TRUE, name |-> SubSeq(cps, i, ne - 1),
          value |-> AttrValue(r), next |-> next]

AttrUntil(cps, i, ne, qp, quot) ==
    IF quot = 0 THEN AttrFail
    ELSE AttrRaw(cps, i, ne, SubSeq(cps, qp + 1, quot - 1), quot + 1)

AttrQuote(cps, i, ne, qp) ==
    IF qp > Len(cps) THEN AttrFail
    ELSE IF cps[qp] \notin {34, 39} THEN AttrFail
    ELSE AttrUntil(cps, i, ne, qp, Find(cps, <<cps[qp]>>, qp + 1))

AttrEq(cps, i, ne, eq) ==
    IF eq > Len(cps) THEN AttrFail
    ELSE IF cps[eq] /= 61 THEN AttrFail
    ELSE AttrQuote(cps, i, ne, SkipS(cps, eq + 1, Len(cps) + 1))

AttrNamed(cps, i, ne) ==
    IF ne = 0 THEN AttrFail
    ELSE AttrEq(cps, i, ne, SkipS(cps, ne, Len(cps) + 1))

\* the attribute whose name starts at i: next is the position after its
\* closing quote
ScanAttr(cps, i) == AttrNamed(cps, i, ScanQName(cps, i))

TagFail(s) == [s EXCEPT !.ok = FALSE, !.done = TRUE]

TagAttr(s, attr) ==
    IF attr.ok
    THEN [s EXCEPT !.j = attr.next,
                   !.attrs = Append(@, [name |-> attr.name,
                                        value |-> attr.value])]
    ELSE TagFail(s)

TagAt(cps, s, j) ==
    IF j > Len(cps) THEN TagFail(s)
    ELSE IF j > s.j /\ IsNameStart(cps[j]) THEN TagAttr(s, ScanAttr(cps, j))
    ELSE IF cps[j] = 62 THEN [s EXCEPT !.j = j + 1, !.done = TRUE]
    ELSE IF cps[j] = 47
         THEN IF j + 1 <= Len(cps) /\ cps[j + 1] = 62
              THEN [s EXCEPT !.j = j + 2, !.done = TRUE, !.empty = TRUE]
              ELSE TagFail(s)
    ELSE TagFail(s)

\* one turn of the loop over what follows the name of a start tag, from
\* position s.j: an attribute, or the end of the tag
TagStep(cps, s) == TagAt(cps, s, SkipS(cps, s.j, Len(cps) + 1))

StartTagEnd(cps, i, ne, end) ==
    [ok |-> end.ok, name |-> SubSeq(cps, i + 1, ne - 1),
     attrs |-> end.attrs, empty |-> end.empty, next |-> end.j]

StartTagNamed(cps, i, ne) ==
    IF ne = 0
    THEN [ok |-> FALSE, name |-> << >>, attrs |-> << >>, empty |-> FALSE, next |-> 0]
    ELSE StartTagEnd(cps, i, ne,
             Run(LAMBDA s : TagStep(cps, s), LAMBDA s : s.done,
                 [j |-> ne, attrs |-> << >>, empty |-> FALSE,
                  ok |-> TRUE, done |-> FALSE],
                 Levels(1 + Cardinality({k \in i..Len(cps) : cps[k] = 61}))))

\* the start tag or empty-element tag at the '<' of position i; the loop
\* takes a turn for each attribute, which has its '=', and one more
ScanStartTag(cps, i) == StartTagNamed(cps, i, ScanQName(cps, i + 1))

(* namespaces *)
HasColon(name) == \E k \in 1..Len(name) : name[k] = 58

ColonAt(name) == CHOOSE k \in 1..Len(name) : name[k] = 58 /\ \A m \in 1..(k - 1) : name[m] /= 58

\* the prefix and the local part of a name that has a colon
PrefixOf(name) == SubSeq(name, 1, ColonAt(name) - 1)

LocalOf(name) == SubSeq(name, ColonAt(name) + 1, Len(name))

\* the attribute declares a namespace
IsDecl(a) == a.name = LitXmlns \/ (HasColon(a.name) /\ PrefixOf(a.name) = LitXmlns)

\* the prefix is bound where bindings are in scope; xml always is
Bound(bindings, prefix) ==
    prefix = LitXml \/ \E k \in 1..Len(bindings) : bindings[k].prefix = prefix

\* the namespace name the prefix stands for: that of its innermost binding
UriOf(bindings, prefix) ==
    IF prefix = LitXml THEN XmlNamespace
    ELSE bindings[CHOOSE k \in 1..Len(bindings) :
                      /\ bindings[k].prefix = prefix
                      /\ \A m \in (k + 1)..Len(bindings) :
                             bindings[m].prefix /= prefix].uri

\* the declaration a of the prefix (none where default holds) is one
\* expat's addBinding accepts
BindingOf(a, default, prefix) ==
    /\ ~(a.value = << >> /\ ~default)
    /\ ~(~default /\ prefix = LitXmlns)
    /\ \A k \in 1..Len(a.value) : a.value[k] /= 32
    /\ (~default /\ prefix = LitXml) = (a.value = XmlNamespace)
    /\ a.value /= XmlnsNamespace

\* expat's addBinding accepts the declaration a
BindingOk(a) ==
    BindingOf(a, a.name = LitXmlns,
              IF a.name = LitXmlns THEN << >> ELSE LocalOf(a.name))

\* the expanded name of the attribute a, which has a prefix
Expanded(scope, a) == <<UriOf(scope, PrefixOf(a.name)), LocalOf(a.name)>>

\* expat accepts the names of a start tag where scope is in scope
GoodNames(scope, name, attrs, decls, plain) ==
    /\ \A k, m \in 1..Len(attrs) : k < m => attrs[k].name /= attrs[m].name
    /\ \A k \in 1..Len(decls) : BindingOk(decls[k])
    /\ \A k \in 1..Len(plain) :
           HasColon(plain[k].name) => Bound(scope, PrefixOf(plain[k].name))
    /\ \A k, m \in 1..Len(plain) :
           (k < m /\ HasColon(plain[k].name) /\ HasColon(plain[m].name))
               => Expanded(scope, plain[k]) /= Expanded(scope, plain[m])
    /\ HasColon(name) => Bound(scope, PrefixOf(name))

OpenAdded(bindings, name, attrs, decls, plain, added) ==
    IF GoodNames(bindings \o added, name, attrs, decls, plain)
    THEN [ok |-> TRUE, attrs |-> decls \o plain, added |-> added]
    ELSE [ok |-> FALSE, attrs |-> << >>, added |-> << >>]

\* the bindings that the declarations of prefixes add
AddedBindings(named) ==
    [k \in 1..Len(named) |->
        [prefix |-> LocalOf(named[k].name), uri |-> named[k].value]]

OpenDeclared(bindings, name, attrs, decls, plain) ==
    OpenAdded(bindings, name, attrs, decls, plain,
              AddedBindings(SelectSeq(decls, LAMBDA a : a.name /= LitXmlns)))

\* what the start tag of an element adds to the document: ok FALSE where
\* expat rejects its names, the attributes in the order minidom holds them
\* (the namespace declarations first), and the bindings it adds
OpenElement(bindings, name, attrs) ==
    OpenDeclared(bindings, name, attrs, SelectSeq(attrs, IsDecl),
                 SelectSeq(attrs, LAMBDA a : ~IsDecl(a)))

(* processing instructions and comments *)
MiscFail == [ok |-> FALSE, node |-> << >>, next |-> 0]

Node(kind, name, attrs, data) ==
    [kind |-> kind, name |-> name, attrs |-> attrs, data |-> data]

\* the instruction of the target ends at the '?>' of position stop
PiUntil(cps, target, te, stop) ==
    IF stop = 0 THEN MiscFail
    ELSE IF Lower(target) = LitXml THEN MiscFail
    ELSE [ok |-> TRUE,
          node |-> <<Node("pi", target, << >>,
                          NormalizeLines(SubSeq(cps, SkipS(cps, te, stop),
                                                stop - 1)))>>,
          next |-> stop + 2]

\* the target ends before te
PiTarget(cps, i, te) ==
    IF te > Len(cps) THEN MiscFail
    ELSE IF cps[te] /= 63 /\ cps[te] \notin XmlSpace THEN MiscFail
    ELSE IF cps[te] = 63 /\ ~StartsWith(cps, te, LitPiClose) THEN MiscFail
    ELSE PiUntil(cps, SubSeq(cps, i + 2, te - 1), te,
                 IF cps[te] = 63 THEN te ELSE Find(cps, LitPiClose, te))

\* the processing instruction at the '<?' of position i
ScanPi(cps, i) ==
    IF i + 2 > Len(cps) THEN MiscFail
    ELSE IF ~IsNameStart(cps[i + 2]) THEN MiscFail
    ELSE PiTarget(cps, i, SkipName(cps, i + 3, Len(cps) + 1, FALSE))

CommentUntil(cps, i, stop) ==
    IF stop = 0 THEN MiscFail
    ELSE IF ~StartsWith(cps, stop, LitCommentClose) THEN MiscFail
    ELSE [ok |-> TRUE,
          node |-> <<Node("comment", << >>, << >>,
                          NormalizeLines(SubSeq(cps, i + 4, stop - 1)))>>,
          next |-> stop + 3]

\* the comment at the '<!--' of position i
ScanComment(cps, i) == CommentUntil(cps, i, Find(cps, LitDashes, i + 4))

(* the document *)
ParseFail(s) == [s EXCEPT !.err = "ExpatError"]

TextNode(data) == Node("text", << >>, << >>, data)

\* a processing instruction or a comment
ParseMisc(s, misc) ==
    IF misc.ok THEN [s EXCEPT !.i = misc.next, !.nodes = @ \o misc.node]
    ELSE ParseFail(s)

\* <![CDATA[ ... ]]>
ParseCdata(cps, s, stop) ==
    IF stop = 0 THEN ParseFail(s)
    ELSE [s EXCEPT !.i = stop + 3,
                   !.nodes = IF stop > s.i + 9
                             THEN Append(@, Node("cdata", << >>, << >>,
                                      NormalizeLines(SubSeq(cps, s.i + 9, stop - 1))))
                             ELSE @]

\* the end tag of the element top
CloseElement(cps, s, ne, close, top) ==
    IF top.name /= SubSeq(cps, s.i + 2, ne - 1) THEN ParseFail(s)
    ELSE [s EXCEPT !.i = close + 1,
                   !.nodes = Append(@, Node("end", top.name, << >>, << >>)),
                   !.bindings = SubSeq(@, 1, top.outer),
                   !.stack = SubSeq(@, 1, Len(@) - 1),
                   !.phase = IF Len(s.stack) = 1 THEN "epilog" ELSE "content"]

ParseEndAt(cps, s, ne, close) ==
    IF close > Len(cps) THEN ParseFail(s)
    ELSE IF cps[close] /= 62 THEN ParseFail(s)
    ELSE IF s.stack = << >> THEN ParseFail(s)
    ELSE CloseElement(cps, s, ne, close, s.stack[Len(s.stack)])

\* </name>
ParseEndTag(cps, s, ne) == ParseEndAt(cps, s, ne, SkipS(cps, ne, Len(cps) + 1))

ParseElement(s, tag, elem) ==
    IF ~elem.ok THEN ParseFail(s)
    ELSE IF tag.empty
    THEN [s EXCEPT !.i = tag.next,
                   !.nodes = @ \o <<Node("start", tag.name, elem.attrs, << >>),
                                    Node("end", tag.name, << >>, << >>)>>,
                   !.phase = IF s.stack = << >> THEN "epilog" ELSE "content"]
    ELSE [s EXCEPT !.i = tag.next,
                   !.nodes = Append(@, Node("start", tag.name, elem.attrs, << >>)),
                   !.stack = Append(@, [name |-> tag.name,
                                        outer |-> Len(s.bindings)]),
                   !.bindings = @ \o elem.added,
                   !.phase = "content"]

\* <name ...> or <name .../>
ParseStartTag(s, tag) ==
    IF ~tag.ok THEN ParseFail(s)
    ELSE ParseElement(s, tag, OpenElement(s.bindings, tag.name, tag.attrs))

ParseRef(s, ref) ==
    IF ref.ok
    THEN [s EXCEPT !.i = ref.next, !.nodes = Append(@, TextNode(<<ref.ch>>))]
    ELSE ParseFail(s)

\* character data up to te
ParseText(cps, s, te) ==
    IF \E k \in s.i..(te - 1) : StartsWith(cps, k, LitCdataClose)
    THEN ParseFail(s)
    ELSE [s EXCEPT !.i = te,
                   !.nodes = Append(@, TextNode(NormalizeLines(
                                           SubSeq(cps, s.i, te - 1))))]

\* a token of the root element, or the start tag of the root element: it
\* is at position i and starts with c
ParseContent(cps, s, i, c) ==
    IF c = 60 /\ i + 1 > Len(cps) THEN ParseFail(s)
    ELSE IF c = 60 /\ cps[i + 1] = 33
    THEN IF ~StartsWith(cps, i, LitCdataOpen) THEN ParseFail(s)
         ELSE ParseCdata(cps, s, Find(cps, LitCdataClose, i + 9))
    ELSE IF c = 60 /\ cps[i + 1] = 47
    THEN IF i + 2 > Len(cps) THEN ParseFail(s)
         ELSE IF ~IsNameStart(cps[i + 2]) THEN ParseFail(s)
         ELSE ParseEndTag(cps, s, SkipName(cps, i + 3, Len(cps) + 1, TRUE))
    ELSE IF c = 60 THEN ParseStartTag(s, ScanStartTag(cps, i))
    ELSE IF c = 38 THEN ParseRef(s, ScanRef(cps, i))
    ELSE ParseText(cps, s,
             Least({k \in i..(Len(cps) + 1) :
                       k = Len(cps) + 1 \/ cps[k] \in {60, 38}}))

\* one token of the document cps, read at position s.i.  phase is where
\* the parser is: before the root element, in it, or after it.  stack
\* holds the open elements, each with the number of bindings that were in
\* scope outside it.
ParseStep(cps, s) ==
    IF s.phase /= "content" /\ cps[s.i] \in XmlSpace
    THEN [s EXCEPT !.i = SkipS(cps, s.i, Len(cps) + 1)]
    ELSE IF StartsWith(cps, s.i, LitPiOpen)
    THEN ParseMisc(s, ScanPi(cps, s.i))
    ELSE IF StartsWith(cps, s.i, LitCommentOpen)
    THEN ParseMisc(s, ScanComment(cps, s.i))
    ELSE IF s.phase = "prolog" /\ StartsWith(cps, s.i, LitDoctype)
            /\ s.i + 9 <= Len(cps) /\ cps[s.i + 9] \in XmlSpace
    THEN [s EXCEPT !.err = "OutsideModel"]
    ELSE IF s.phase = "epilog" THEN ParseFail(s)
    ELSE IF s.phase = "prolog"
            /\ ~(cps[s.i] = 60 /\ s.i + 1 <= Len(cps) /\ IsNameStart(cps[s.i + 1]))
    THEN ParseFail(s)
    ELSE ParseContent(cps, s, s.i, cps[s.i])

\* the document is whole where the root element has ended
ParsedDocument(end) ==
    IF end.err /= "" THEN [err |-> end.err, nodes |-> << >>]
    ELSE IF end.phase /= "epilog" THEN [err |-> "ExpatError", nodes |-> << >>]
    ELSE [err |-> "", nodes |-> end.nodes]

\* the document that the code points cps write; a token starts at a '<'
\* or a '&' or is what stands between two
ParseDocument(cps) ==
    ParsedDocument(
        Run(LAMBDA s : ParseStep(cps, s),
            LAMBDA s : s.err /= "" \/ s.i > Len(cps),
            [i |-> 1, phase |-> "prolog", stack |-> << >>,
             bindings |-> << >>, nodes |-> << >>, err |-> ""],
            Levels(1 + 2 * Cardinality({k \in 1..Len(cps) : cps[k] \in {60, 38}}))))

ParseFailure(e) == [err |-> e, nodes |-> << >>]

\* the characters cps of the document
ParseChars(cps, ascii) ==
    IF \E k \in 1..Len(cps) : ~IsChar(cps[k]) \/ (ascii /\ cps[k] >= 128)
    THEN ParseFailure("ExpatError")
    ELSE ParseDocument(cps)

\* the characters dec.val, which are ASCII where ascii holds
ParseDecoded(dec, ascii) ==
    IF ~dec.ok THEN ParseFailure("ExpatError")
    ELSE ParseChars(dec.val, ascii)

\* the bytes body in the encoding enc the declaration names, bare where
\* it names none: UTF-8 unless the declaration says ASCII
ParseEncoded(body, bare, enc) ==
    IF enc \in {LitUtf16, LitUtf16be, LitUtf16le} THEN ParseFailure("ExpatError")
    ELSE IF ~(bare \/ enc \in {LitUtf8, LitUsAscii, LitAscii})
    THEN ParseFailure("OutsideModel")
    ELSE ParseDecoded(IF bare \/ enc = LitUtf8 THEN Utf8Decode(body)
                      ELSE [ok |-> TRUE, val |-> body],
                      ~(bare \/ enc = LitUtf8))

ParseDeclared(data, decl) ==
    IF decl.err /= "" THEN ParseFailure(decl.err)
    ELSE ParseEncoded(SubSeq(data, decl.next, Len(data)), decl.enc = << >>,
                      Lower(decl.enc))

\* xml.dom.minidom.parseString(data) for the bytes data: err is "" and
\* nodes the document, or err is the exception raised
minidom_parseString(data) ==
    IF Len(data) >= 2 /\ SubSeq(data, 1, 2) \in {<<254, 255>>, <<255, 254>>,
                                                 <<0, 60>>, <<60, 0>>}
    THEN ParseFailure("OutsideModel")
    ELSE ParseDeclared(data,
             XmlDecl_parse(data,
                 IF Len(data) >= 3 /\ SubSeq(data, 1, 3) = <<239, 187, 191>>
                 THEN 4 ELSE 1))

(* Node.toxml(encoding='ascii') *)
\* Element.writexml, Text.writexml, ... for node k of the document, with
\* indent, addindent and newl empty
WriteNode(nodes, k) ==
    LET nd == nodes[k]
    IN  CASE nd.kind = "start" ->
                 <<60>> \o nd.name
                 \o Concat([a \in 1..Len(nd.attrs) |->
                        WriteAttr(nd.attrs[a].name, nd.attrs[a].value)])
                 \o (IF nodes[k + 1].kind = "end" THEN LitEmptyClose ELSE <<62>>)
          [] nd.kind = "end" ->
                 IF nodes[k - 1].kind = "start" THEN << >>
                 ELSE LitEndOpen \o nd.name \o <<62>>
          [] nd.kind = "text" -> WriteData(nd.data)
          [] nd.kind = "cdata" -> LitCdataOpen \o nd.data \o LitCdataClose
          [] nd.kind = "comment" -> LitCommentOpen \o nd.data \o LitCommentClose
          [] nd.kind = "pi" -> LitPiOpen \o nd.name \o <<32>> \o nd.data \o LitPiClose

\* Document.toxml(encoding='ascii') of a parsed document
ToXml(nodes) ==
    EncodeAscii(XmlDecl \o Concat([k \in 1..Len(nodes) |-> WriteNode(nodes, k)]))

(***************************************************************************)
(* The inputs: the files add_file can be given, by name, with what each    *)
(* holds, and the versions Kom is called with.                             *)
(***************************************************************************)
\* 60 characters: the longest name add_file takes
Name60 == Repeat(97, NameFieldSize)      \* 'aaa...a'
NameB == <<98, 38>>                      \* 'b&'
\* a file name with a control character in it
NameCtl == <<1>>                         \* '\x01'
\* 61 characters
NameLong == Repeat(99, NameFieldSize + 1)
\* the name of a path at which there is no file
NameMissing == <<122>>                   \* 'z'

\* the names of the files add_file can take: NameB is the name of an entry
\* of ForeignUnordered below
ValidNames == {Name60, NameCtl}
FileNames == ValidNames \cup {CrcXmlName, NameLong, NameMissing}

\* open(file_path, 'rb') finds a file
FileExists(name) == name /= NameMissing

\* the bytes of the file of that name
FileContent(name) ==
    IF name = Name60 THEN <<104, 101, 108, 108, 111>>
    ELSE IF name = NameB THEN <<0, 1, 2>>
    ELSE IF name = NameCtl THEN << >>
    ELSE <<120>>

\* the versions Kom(version) is called with: the first of 0..5 and the
\* version the program creates archives with
Versions == {0, 2}

(***************************************************************************)
(* The byte strings the archives below hold: what the files hold, and the  *)
(* manifests to_file writes for them.  zlib and the parser are worked out  *)
(* once for each of these and looked up afterwards; for any other byte     *)
(* string they are worked out on the spot.                                 *)
(***************************************************************************)
\* the names an entry can have, ascending
EntryNames == <<NameCtl, Name60, NameB>>

\* the names of EntryNames at the positions of the set S, ascending
Pick(S) ==
    [k \in 1..Cardinality(S) |->
        EntryNames[CHOOSE i \in S : Cardinality({j \in S : j < i}) = k - 1]]

\* the names of the entries of an archive in the order of a manifest:
\* ascending, and the order of ForeignUnordered below
NameLists ==
    {Pick(S) : S \in {T \in SUBSET (1..Len(EntryNames)) : Cardinality(T) <= MaxEntries}}
    \cup {<<NameB, Name60>>}

FileTexts == {FileContent(EntryNames[k]) : k \in 1..Len(EntryNames)}

\* the value tbl holds for x, and v for an x it does not hold
Cached(tbl, x, v) == IF x \in DOMAIN tbl THEN tbl[x] ELSE v

Range(tbl) == {tbl[x] : x \in DOMAIN tbl}

RECURSIVE DeflatedFiles, Deflated, Inflated, ParsedTexts

\* zlib.compress(raw), looked up unless direct
CompressWith(raw, direct) ==
    Cached(IF direct THEN << >> ELSE Deflated, raw, zlib_compress(raw))

\* zlib.decompress(data), looked up unless direct
DecompressWith(data, direct) ==
    Cached(IF direct THEN << >> ELSE Inflated, data, zlib_decompress(data))

\* xml.dom.minidom.parseString(data), looked up unless direct
ParseWith(data, direct) ==
    Cached(IF direct THEN << >> ELSE ParsedTexts, data, minidom_parseString(data))

DeflatedFiles == Table([raw \in FileTexts |-> CompressWith(raw, TRUE)])

\* the manifest of an archive of that version with entries of these names
ManifestText(v, names) ==
    ToPrettyXml(version_fmt(v),
        [k \in 1..Len(names) |->
            [Name |-> names[k], Size |-> Str(Len(FileContent(names[k]))),
             Version |-> <<48>>,
             CheckSum |-> Hex08(Crc32(DeflatedFiles[FileContent(names[k])]))]])

ManifestTexts == {ManifestText(v, names) : v \in Versions, names \in NameLists}

Deflated == DeflatedFiles @@ Table([raw \in ManifestTexts |-> CompressWith(raw, TRUE)])

Inflated == Table([data \in Range(Deflated) |-> DecompressWith(data, TRUE)])

ParsedTexts == Table([text \in ManifestTexts |-> ParseWith(text, TRUE)])

\* zlib.compress(raw)
Compress(raw) == CompressWith(raw, FALSE)

\* zlib.decompress(data): ok is FALSE where it raises zlib.error
Decompress(data) == DecompressWith(data, FALSE)

\* xml.dom.minidom.parseString(data)
parseString(data) == ParseWith(data, FALSE)

(***************************************************************************)
(* class Entry                                                             *)
(***************************************************************************)
Entry(name, uncompressed_size, compressed_size, relative_offset, data) ==
    [name |-> name, uncompressed_size |-> uncompressed_size,
     compressed_size |-> compressed_size,
     relative_offset |-> relative_offset, data |-> data]

\* Entry(name, uncompressed_size, len(data), relative_offset, data)
Entry_of(name, uncompressed_size, relative_offset, data) ==
    Entry(name, uncompressed_size, Len(data), relative_offset, data)

\* Entry.from_file: content is what the file at the path holds
Entry_from_file(name, content) ==
    Entry_of(name, Len(content), NoneInt, Compress(content))

Entry_from_data(raw_data, name, relative_offset) ==
    Entry_of(name, Len(raw_data), relative_offset, Compress(raw_data))

\* Entry._read: the slice of the data segment the metadata points at
Entry_read(relative_offset, compressed_size, raw_data) ==
    Slice(raw_data, relative_offset, relative_offset + compressed_size)

\* Entry.from_kom_data for a 72 byte record whose name field is ASCII
Entry_from_kom_data(entry_metadata, raw_data) ==
    LET name == RStrip(SubSeq(entry_metadata, 1, NameFieldSize), 0)
        usz  == UnpackU32(entry_metadata, NameFieldSize)
        csz  == UnpackU32(entry_metadata, NameFieldSize + 4)
        off  == UnpackU32(entry_metadata, NameFieldSize + 8)
    IN  Entry(name, usz, csz, off, Entry_read(off, csz, raw_data))

\* Entry.packed_metadata
packed_metadata(e) ==
    PackStr(NameFieldSize, e.name) \o PackU32(e.uncompressed_size)
    \o PackU32(e.compressed_size) \o PackU32(e.relative_offset)

\* Entry.crc32
Entry_crc32(e) == Crc32(e.data)

\* Entry.uncompressed_data: [ok, val], ok FALSE where zlib.error is raised
uncompressed_data(e) == Decompress(e.data)

(***************************************************************************)
(* class Crc                                                               *)
(***************************************************************************)
\* Crc(version): the document with the Version item and an empty File
Crc_new(ver) ==
    [parsed |-> FALSE, version_item |-> version_fmt(ver),
     items |-> << >>, nodes |-> << >>]

\* Crc(version, entry): the document parseString made, as its nodes
Crc_parsed(nodes) ==
    [parsed |-> TRUE, version_item |-> << >>, items |-> << >>, nodes |-> nodes]

\* the attribute computed over the content instead of the stored bytes
CheckSumOf_Content(entry) == Hex08(Crc32(Decompress(entry.data).val))

\* the value of the CheckSum attribute
CheckSumOf(entry) == Hex08(Entry_crc32(entry))

\* Crc.append_entry
append_entry(self, entry) ==
    [self EXCEPT !.items = Append(@,
        [Name |-> entry.name, Size |-> Str(entry.uncompressed_size),
         Version |-> <<48>>, CheckSum |-> CheckSumOf(entry)])]

\* Crc.xml: a parsed document is written by toxml, one that Crc(version)
\* built by toprettyxml
Crc_xml(self) ==
    IF self.parsed THEN ToXml(self.nodes)
    ELSE ToPrettyXml(self.version_item, self.items)

(***************************************************************************)
(* class Kom: the pure parts                                               *)
(***************************************************************************)
RECURSIVE InsertByName(_, _, _)
\* e goes after every entry whose name is not greater than its own
InsertByName(sorted, e, i) ==
    IF i > Len(sorted) THEN Append(sorted, e)
    ELSE IF StrLess(e.name, sorted[i].name)
         THEN SubSeq(sorted, 1, i - 1) \o <<e>> \o SubSeq(sorted, i, Len(sorted))
    ELSE InsertByName(sorted, e, i + 1)

RECURSIVE SortFrom(_, _, _)
SortFrom(es, i, acc) ==
    IF i > Len(es) THEN acc ELSE SortFrom(es, i + 1, InsertByName(acc, es[i], 1))

\* list.sort(key=lambda x: x.name): ascending and stable
SortByName(es) == SortFrom(es, 1, << >>)

RECURSIVE RecalcFrom(_, _, _)
RecalcFrom(es, i, relative_offset) ==
    IF i > Len(es) THEN es
    ELSE RecalcFrom([es EXCEPT ![i].relative_offset = relative_offset],
                    i + 1, relative_offset + es[i].compressed_size)

\* the loop without its 'relative_offset += e.compressed_size'
RecalcOffsets_NoAdvance(es) ==
    [i \in 1..Len(es) |-> [es[i] EXCEPT !.relative_offset = 0]]

\* the loop started from the end of the data the offsets described before
\* (self._relative_offset) instead of from 0
RecalcOffsets_Continued(es) ==
    RecalcFrom(es, 1, IF Len(es) = 0 THEN 0
                      ELSE es[Len(es)].relative_offset + es[Len(es)].compressed_size)

\* the loop of Kom._sort_entries that recalculates the relative offsets
RecalcOffsets(es) == RecalcFrom(es, 1, 0)

\* Kom._sort_entries: the value of self._entries after the call
sort_entries(es) == RecalcOffsets(SortByName(es))

\* Kom._relative_offset
relative_offset_of(es) ==
    IF Len(es) = 0 THEN 0
    ELSE es[Len(es)].relative_offset + es[Len(es)].compressed_size

\* header_info of Kom.to_file: struct.pack('<27s25x2I', raw_version, n, 1)
header_info(ver, entry_count) ==
    PackStr(RawVersionSize, MassfilePrefix \o version_fmt(ver))
    \o Repeat(0, HeaderPadSize) \o PackU32(entry_count) \o PackU32(1)

RECURSIVE AppendAll(_, _, _)
\* the self._crc.append_entry(entry) calls of the loop of Kom.to_file
AppendAll(self, es, i) ==
    IF i > Len(es) THEN self ELSE AppendAll(append_entry(self, es[i]), es, i + 1)

\* the return statement of Kom.to_file: header_info + entries_metadata +
\* data, after the manifest entry was added to the last two
to_file_written(ver, sorted, fresh, manifest) ==
    [entries |-> sorted, crc |-> fresh, crc_entry |-> manifest,
     ret |-> header_info(ver, Len(sorted) + 1)
             \o Concat([i \in 1..Len(sorted) |-> packed_metadata(sorted[i])])
             \o packed_metadata(manifest)
             \o Concat([i \in 1..Len(sorted) |-> sorted[i].data])
             \o manifest.data]

\* Kom.to_file once its loop has filled the fresh Crc: the manifest entry
\* is made from its xml, at self._relative_offset
to_file_listed(ver, sorted, fresh) ==
    to_file_written(ver, sorted, fresh,
        Entry_from_data(Crc_xml(fresh), CrcXmlName, relative_offset_of(sorted)))

\* Kom.to_file after self._sort_entries()
to_file_sorted(ver, sorted) ==
    to_file_listed(ver, sorted, AppendAll(Crc_new(ver), sorted, 1))

\* Kom.to_file as a function of the object: the fields it leaves behind
\* (entries, crc, crc_entry) and the bytes it returns (ret)
to_file(ver, es) == to_file_sorted(ver, sort_entries(es))

\* the decimal version of the 27 byte field: split('.')[-2]
VersionSegment(decoded) ==
    LET parts == Split(decoded, 46) IN parts[Len(parts) - 1]

\* the entries Kom._from_kom_file reads from the metadata table
ReadEntries(raw_entries, entry_count, raw_data) ==
    [i \in 1..entry_count |->
        Entry_from_kom_data(
            Slice(raw_entries, (i - 1) * metadata_size, i * metadata_size),
            raw_data)]

\* the exception Entry.from_kom_data raises for the i-th record of the
\* metadata table, "" when it returns
RecordError(raw_entries, i) ==
    LET record == Slice(raw_entries, (i - 1) * metadata_size, i * metadata_size)
    IN  IF Len(record) < metadata_size THEN "struct.error"
        ELSE IF ~IsAscii(SubSeq(record, 1, NameFieldSize)) THEN "UnicodeDecodeError"
        ELSE ""

\* the exception of the first record of the metadata table that raises one
FirstRecordError(raw_entries, entry_count) ==
    LET bad   == {i \in 1..entry_count : RecordError(raw_entries, i) /= ""}
        first == CHOOSE i \in bad : \A j \in bad : i <= j
    IN  IF bad = {} THEN "" ELSE RecordError(raw_entries, first)

\* Kom._from_kom_file left by the exception e
from_kom_file_raised(e) ==
    [err |-> e, version |-> NoneInt, entries |-> << >>,
     crc |-> << >>, crc_entry |-> << >>]

\* Kom._from_kom_file from self._crc = Crc(version, crc_entry) on, where
\* doc is what parseString made of the manifest
from_kom_file_crc(ver, all, doc) ==
    IF doc.err /= "" THEN from_kom_file_raised(doc.err)
    ELSE [err |-> "", version |-> ver,
          entries |-> SubSeq(all, 1, Len(all) - 1),
          crc |-> <<Crc_parsed(doc.nodes)>>, crc_entry |-> <<all[Len(all)]>>]

\* Kom._from_kom_file once the manifest entry is decompressed into text
from_kom_file_manifest(ver, all, text) ==
    IF ~text.ok THEN from_kom_file_raised("zlib.error")
    ELSE from_kom_file_crc(ver, all, parseString(text.val))

\* Kom._from_kom_file from the loop over the metadata table on
from_kom_file_entries(ver, entry_count, raw_entries, raw_data) ==
    IF FirstRecordError(raw_entries, entry_count) /= ""
    THEN from_kom_file_raised(FirstRecordError(raw_entries, entry_count))
    ELSE IF entry_count = 0 THEN from_kom_file_raised("IndexError")
    ELSE from_kom_file_manifest(ver,
             ReadEntries(raw_entries, entry_count, raw_data),
             uncompressed_data(
                 Entry_from_kom_data(
                     Slice(raw_entries, (entry_count - 1) * metadata_size,
                           entry_count * metadata_size),
                     raw_data)))

\* Kom._from_kom_file from the test of the version on, where parsed is
\* what int made of the version field
from_kom_file_version(f, raw_version, entry_count, parsed) ==
    IF ~parsed.ok THEN from_kom_file_raised("ValueError")
    ELSE IF raw_version /= raw_version_fmt(parsed) \/ ~InRange(parsed, 6)
         THEN from_kom_file_raised("Exception")
    ELSE from_kom_file_entries(parsed.digits[1], entry_count,
             Slice(f, header_info_size,
                   header_info_size + metadata_size * entry_count),
             Slice(f, header_info_size + metadata_size * entry_count, Len(f)))

\* Kom._from_kom_file from raw_version.decode('ascii') on
from_kom_file_header(f, raw_version, entry_count) ==
    IF ~IsAscii(raw_version) THEN from_kom_file_raised("UnicodeDecodeError")
    ELSE IF Len(Split(raw_version, 46)) < 2 THEN from_kom_file_raised("IndexError")
    ELSE from_kom_file_version(f, raw_version, entry_count,
                               int(VersionSegment(raw_version)))

\* Kom._from_kom_file on the bytes f of the file: err names the exception
\* that leaves it, "" when it returns
from_kom_file(f) ==
    IF Len(Slice(f, 0, header_info_size)) < header_info_size
    THEN from_kom_file_raised("struct.error")
    ELSE from_kom_file_header(f, Slice(f, 0, RawVersionSize),
                              UnpackU32(f, RawVersionSize + HeaderPadSize))

\* the names add_file compares: 0 when no entry has the name
RECURSIVE FindFrom(_, _, _)
FindFrom(es, name, i) ==
    IF i > Len(es) THEN 0
    ELSE IF es[i].name = name THEN i
    ELSE FindFrom(es, name, i + 1)

\* Kom._find_entry: the position of the first entry of that name, 0 where
\* it raises ValueError
find_entry(es, name) == FindFrom(es, name, 1)

\* the exception Kom.add_file raises before it reads the file, "" when it
\* goes on to read it
add_file_error(es, file_name) ==
    IF file_name = CrcXmlName THEN "IgnoredFile"
    ELSE IF Len(file_name) > NameFieldSize THEN "IgnoredFile"
    ELSE IF \E i \in 1..Len(es) : es[i].name = file_name THEN "MultipleFilesError"
    ELSE ""

\* del self._entries[i] for the 1-based position i
Remove(es, i) == SubSeq(es, 1, i - 1) \o SubSeq(es, i + 1, Len(es))

(***************************************************************************)
(* The references extract can be given, and the KOM files that exist       *)
(* besides the ones the archive object writes.                             *)
(***************************************************************************)

IntRef(i) == [kind |-> "int", i |-> i, s |-> << >>]
StrRef(s) == [kind |-> "str", i |-> 0, s |-> s]
\* a reference that is neither an int nor a str, such as 1.5
OtherRef == [kind |-> "float", i |-> 0, s |-> << >>]
\* the file a caller wrote the bytes of the preceding to_file call to
BufferRef == [kind |-> "file", i |-> 0, s |-> << >>]
\* the k-th of the KOM files that exist besides
ForeignRef(k) == [kind |-> "file", i |-> k, s |-> << >>]
NoRef == [kind |-> "none", i |-> 0, s |-> << >>]

\* a name no entry has, as add_file never takes it
AbsentName == NameLong

ExtractRefs ==
    {IntRef(-1), IntRef(0), IntRef(MaxEntries)}
    \cup {StrRef(NameB), StrRef(AbsentName), StrRef(CrcXmlName)}
    \cup {OtherRef}

DelNames == ValidNames \cup {AbsentName}

\* the names of the entries of ForeignUnordered, in the order of its table
ForeignNames == <<NameB, Name60>>

\* what the next entry of ForeignUnordered holds, after the entries es: the
\* file of its name, and for the last one the manifest of the entries
ForeignName(es) ==
    IF Len(es) < Len(ForeignNames) THEN ForeignNames[Len(es) + 1] ELSE CrcXmlName
ForeignText(es) ==
    IF Len(es) < Len(ForeignNames) THEN FileContent(ForeignName(es))
    ELSE Crc_xml(AppendAll(Crc_new(0), es, 1))

RECURSIVE ForeignEntries(_)
\* the entries of ForeignUnordered and its manifest entry after them
ForeignEntries(es) ==
    IF Len(es) > Len(ForeignNames) THEN es
    ELSE ForeignEntries(Append(es,
             Entry_from_data(ForeignText(es), ForeignName(es), 0)))

\* the data of the manifest es[3] comes first, then that of es[2], then
\* that of es[1]
ForeignPlaced(es) ==
    <<[es[1] EXCEPT !.relative_offset = es[3].compressed_size + es[2].compressed_size],
      [es[2] EXCEPT !.relative_offset = es[3].compressed_size],
      es[3]>>

ForeignWritten(es) ==
    header_info(0, Len(es))
    \o Concat([k \in 1..Len(es) |-> packed_metadata(es[k])])
    \o es[3].data \o es[2].data \o es[1].data

\* A version 0 archive of another writer: its metadata table is in no
\* order, its data segment starts with the manifest and holds the entries
\* after it, so no offset is the sum of the sizes before it.
ForeignUnordered == ForeignWritten(ForeignPlaced(ForeignEntries(<< >>)))

\* a file whose version field names version 6
ForeignVersion6 == header_info(6, 1) \o Repeat(0, metadata_size)

ForeignIds == 1..2

\* the bytes of the k-th of these files
ForeignFile(k) == IF k = 1 THEN ForeignUnordered ELSE ForeignVersion6

\* what is at the paths main writes to before it runs: the names that are
\* regular files and the names that are directories
Disks ==
    {[files |-> {}, dirs |-> {}],
     [files |-> {Name60}, dirs |-> {}],
     [files |-> {}, dirs |-> {NameB}]}

(***************************************************************************)
(* The state: one Kom object (origin tells how it was made: "none" while   *)
(* there is none, "constructed" by Kom(version), "parsed" by               *)
(* Kom(file_path=...)), its fields, and the latest call with its outcome.  *)
(* iter_indexes is the deque self._iter_indexes in a one-element tuple,    *)
(* << >> while the object has no such attribute.                           *)
(***************************************************************************)
VARIABLES origin, version, entries, crc, crc_entry, iter_indexes, call

vars == <<origin, version, entries, crc, crc_entry, iter_indexes, call>>

\* a call, its argument, the exception it raised ("" for none) and the
\* bytes it returned; again tells that the call before it was a to_file
\* call too; exit, stderr and extracted are the exit status, the error
\* message and the 'Extracted' lines of a run of the program; count is the
\* integer len returned and yielded the names of the items a loop over
\* the archive, or one __next__ call, got
Call(op, arg, err, ret) ==
    [op |-> op, arg |-> arg, err |-> err, ret |-> ret, again |-> FALSE,
     exit |-> 0, stderr |-> "", extracted |-> << >>,
     count |-> NoneInt, yielded |-> << >>]

Init ==
    /\ origin = "none"
    /\ version = NoneInt
    /\ entries = << >>
    /\ crc = << >>
    /\ crc_entry = << >>
    /\ iter_indexes = << >>
    /\ call = Call("start", NoRef, "", << >>)

\* the bytes of the file a reference names
FileBytes(ref) == IF ref.i = 0 THEN call.ret ELSE ForeignFile(ref.i)

\* what Kom._from_kom_file makes of each of the files that exist besides
ForeignParsed == Table([k \in ForeignIds |-> from_kom_file(ForeignFile(k))])

FileRefs ==
    {ForeignRef(k) : k \in ForeignIds}
    \cup (IF call.op = "to_file" THEN {BufferRef} ELSE {})

\* Kom(version=v): Kom.__init__ without a file path
KomInit(v) ==
    /\ IF v /= 0
       THEN /\ origin' = "constructed"
            /\ version' = v
            /\ entries' = << >>
            /\ crc' = << >>
            /\ crc_entry' = << >>
            /\ iter_indexes' = << >>
            /\ call' = Call("Kom", IntRef(v), "", << >>)
       ELSE /\ call' = Call("Kom", IntRef(v), "Exception", << >>)
            /\ UNCHANGED <<origin, version, entries, crc, crc_entry, iter_indexes>>

\* Kom.__init__ with a file path once self._from_kom_file(file_path) is
\* over, r being what it made
KomOpened(ref, r) ==
    IF r.err = ""
    THEN /\ origin' = "parsed"
         /\ version' = r.version
         /\ entries' = r.entries
         /\ crc' = r.crc
         /\ crc_entry' = r.crc_entry
         /\ iter_indexes' = << >>
         /\ call' = Call("open", ref, "", << >>)
    ELSE /\ call' = Call("open", ref, r.err, << >>)
         /\ UNCHANGED <<origin, version, entries, crc, crc_entry, iter_indexes>>

\* Kom(file_path=f): Kom.__init__ with a file path, Kom._from_kom_file
KomOpen(ref) == KomOpened(ref, from_kom_file(FileBytes(ref)))

\* Kom.add_file(file_path) for a path whose last component is file_name
AddFile(file_name) ==
    /\ origin /= "none"
    /\ LET err == add_file_error(entries, file_name)
       IN  IF err /= ""
           THEN /\ call' = Call("add_file", StrRef(file_name), err, << >>)
                /\ UNCHANGED entries
           ELSE IF ~FileExists(file_name)
           THEN /\ call' = Call("add_file", StrRef(file_name),
                                "FileNotFoundError", << >>)
                /\ UNCHANGED entries
           ELSE /\ entries' = Append(entries,
                                  Entry_from_file(file_name, FileContent(file_name)))
                /\ call' = Call("add_file", StrRef(file_name), "", << >>)
    /\ UNCHANGED <<origin, version, crc, crc_entry, iter_indexes>>

\* Kom.del_entry(name)
DelEntry(name) ==
    /\ origin /= "none"
    /\ LET i == find_entry(entries, name)
       IN  IF i = 0
           THEN /\ call' = Call("del_entry", StrRef(name), "ValueError", << >>)
                /\ UNCHANGED entries
           ELSE /\ entries' = Remove(entries, i)
                /\ call' = Call("del_entry", StrRef(name), "", << >>)
    /\ UNCHANGED <<origin, version, crc, crc_entry, iter_indexes>>

\* the fields Kom.to_file leaves behind and the bytes it returns
ToFileDone(r) ==
    /\ entries' = r.entries
    /\ crc' = <<r.crc>>
    /\ crc_entry' = <<r.crc_entry>>
    /\ call' = [Call("to_file", NoRef, "", r.ret)
                EXCEPT !.again = (call.op = "to_file")]

\* Kom.to_file()
ToFile ==
    /\ origin /= "none"
    /\ ToFileDone(to_file(version, entries))
    /\ UNCHANGED <<origin, version, iter_indexes>>

\* Kom.__getitem__(i): err names the exception it raises, "" when it
\* returns; entry is what it returns, << >> for None
getitem(es, manifest, ref) ==
    IF ref.kind = "int"
    THEN LET idx == IF ref.i < 0 THEN ref.i + Len(es) ELSE ref.i
         IN  IF idx < 0 \/ idx >= Len(es)
             THEN [err |-> "IndexError", entry |-> << >>]
             ELSE [err |-> "", entry |-> <<es[idx + 1]>>]
    ELSE IF ref.kind = "str"
    THEN IF ref.s = CrcXmlName THEN [err |-> "", entry |-> manifest]
         ELSE IF find_entry(es, ref.s) = 0
              THEN [err |-> "ValueError", entry |-> << >>]
              ELSE [err |-> "", entry |-> <<es[find_entry(es, ref.s)]>>]
    ELSE [err |-> "TypeError", entry |-> << >>]

\* .uncompressed_data of an entry, raw being what zlib.decompress made
extract_data(raw) ==
    IF ~raw.ok THEN [err |-> "zlib.error", ret |-> << >>]
    ELSE [err |-> "", ret |-> raw.val]

\* self[entry].uncompressed_data, got being what self[entry] made
extract_item(got) ==
    IF got.err /= "" THEN [err |-> got.err, ret |-> << >>]
    ELSE IF got.entry = << >> THEN [err |-> "AttributeError", ret |-> << >>]
    ELSE extract_data(uncompressed_data(got.entry[1]))

\* Kom.extract(entry) for a reference that is not itself an Entry:
\* self[entry].uncompressed_data
extract(es, manifest, ref) == extract_item(getitem(es, manifest, ref))

ExtractDone(ref, r) == call' = Call("extract", ref, r.err, r.ret)

\* Kom.extract(ref)
Extract(ref) ==
    /\ origin /= "none"
    /\ ExtractDone(ref, extract(entries, crc_entry, ref))
    /\ UNCHANGED <<origin, version, entries, crc, crc_entry, iter_indexes>>

\* Kom.__len__: 'len(self._entries) + 1 if self._crc_entry else 0' is the
\* conditional expression (len(self._entries) + 1) if ... else 0
kom_len(es, manifest) == IF manifest /= << >> THEN Len(es) + 1 ELSE 0

\* Kom.__iter__: the indexes it queues in self._iter_indexes
queued_indexes(es, manifest) ==
    [i \in 1..Len(es) |-> IntRef(i - 1)]
    \o (IF manifest /= << >> THEN <<StrRef(CrcXmlName)>> ELSE << >>)

\* 'for item in kom': Kom.__next__ returns self[index] for each queued
\* index; the call after the last one pops from the empty deque, which
\* raises IndexError (never StopIteration), and that ends the loop
kom_iter(es, manifest) ==
    LET idx == queued_indexes(es, manifest)
    IN  [yielded |-> [k \in 1..Len(idx) |->
                         getitem(es, manifest, idx[k]).entry[1].name],
         err |-> "IndexError"]

\* kom.crc_xml: self._crc.xml, and self._crc is None until to_file or open
\* has set it
CrcXml ==
    /\ origin /= "none"
    /\ call' = IF crc = << >>
               THEN Call("crc_xml", NoRef, "AttributeError", << >>)
               ELSE Call("crc_xml", NoRef, "", Crc_xml(crc[1]))
    /\ UNCHANGED <<origin, version, entries, crc, crc_entry, iter_indexes>>

\* len(kom)
LenCall ==
    /\ origin /= "none"
    /\ call' = [Call("len", NoRef, "", << >>)
                EXCEPT !.count = kom_len(entries, crc_entry)]
    /\ UNCHANGED <<origin, version, entries, crc, crc_entry, iter_indexes>>

\* iter(kom): Kom.__iter__
IterCall ==
    /\ origin /= "none"
    /\ iter_indexes' = <<queued_indexes(entries, crc_entry)>>
    /\ call' = Call("__iter__", NoRef, "", << >>)
    /\ UNCHANGED <<origin, version, entries, crc, crc_entry>>

\* the names of the entry self[index] returned: none for None
YieldedBy(got) == IF got.entry = << >> THEN << >> ELSE <<got.entry[1].name>>

\* next(kom): Kom.__next__.  The index is popped before self[index] is
\* looked up, so it is gone when the lookup raises.
NextCall ==
    /\ origin /= "none"
    /\ IF iter_indexes = << >>
       THEN /\ call' = Call("__next__", NoRef, "AttributeError", << >>)
            /\ UNCHANGED iter_indexes
       ELSE IF iter_indexes[1] = << >>
       THEN /\ call' = Call("__next__", NoRef, "IndexError", << >>)
            /\ UNCHANGED iter_indexes
       ELSE LET got == getitem(entries, crc_entry, Head(iter_indexes[1]))
            IN  /\ iter_indexes' = <<Tail(iter_indexes[1])>>
                /\ call' = [Call("__next__", Head(iter_indexes[1]), got.err, << >>)
                            EXCEPT !.yielded = YieldedBy(got)]
    /\ UNCHANGED <<origin, version, entries, crc, crc_entry>>

\* a for loop over kom that runs to its end with no other call in between:
\* one __iter__ call and __next__ calls up to the one that raises
Iterate ==
    /\ origin /= "none"
    /\ LET r == kom_iter(entries, crc_entry)
       IN  call' = [Call("iter", NoRef, r.err, << >>)
                    EXCEPT !.yielded = r.yielded]
    /\ iter_indexes' = << << >> >>
    /\ UNCHANGED <<origin, version, entries, crc, crc_entry>>

(***************************************************************************)
(* kompactor.py: main(argv) for argv = [program, '-x', path], run in a     *)
(* directory that holds the files and directories of disk.  The names of   *)
(* the entries hold no '/' and no NUL.                                     *)
(***************************************************************************)
\* errno.EEXIST and errno.EISDIR
EEXIST == 17
EISDIR == 21

\* the attributes class Kom defines
KomClassAttrs ==
    {"header_info_size", "raw_version_fmt", "version_fmt", "entries",
     "crc_entry", "version", "version_str", "crc_xml", "_find_entry",
     "__getitem__", "__len__", "__iter__", "__next__", "__init__",
     "_from_kom_file", "add_file", "del_entry", "to_file", "extract",
     "_relative_offset", "_sort_entries"}

\* the name main looks up on class Kom to open the archive
MainOpenAttr == "from_kom_file"

\* write(data, file_path, force_overwrite) for the path of that name: the
\* status it exits with and its message, 0 when it returns.  The path of
\* the empty name is the output directory.
write(name, files, dirs, force_overwrite) ==
    IF ~force_overwrite /\ name \in files
    THEN [exit |-> EEXIST, stderr |-> "Unable to overwrite file"]
    ELSE IF name = << >> \/ name \in dirs
    THEN [exit |-> EISDIR, stderr |-> "Unable to overwrite directory"]
    ELSE [exit |-> 0, stderr |-> ""]

\* the loop of main over entry_list from its i-th entry on: done holds the
\* names whose 'Extracted' line is printed, files the regular files there
\* are.  An exception of kom.extract(e) other than TypeError ends the run
\* with a traceback and status 1.
RECURSIVE ExtractedFrom(_, _, _, _, _)
ExtractedFrom(es, i, files, dirs, done) ==
    IF i > Len(es) THEN [exit |-> 0, stderr |-> "", extracted |-> done]
    ELSE IF ~uncompressed_data(es[i]).ok
    THEN [exit |-> 1, stderr |-> "Traceback", extracted |-> done]
    ELSE IF write(es[i].name, files, dirs, FALSE).exit /= 0
    THEN [exit |-> write(es[i].name, files, dirs, FALSE).exit,
          stderr |-> write(es[i].name, files, dirs, FALSE).stderr,
          extracted |-> done]
    ELSE ExtractedFrom(es, i + 1, files \cup {es[i].name}, dirs,
                       Append(done, es[i].name))

\* eprint(kom_not_valid_err_msg % in_file_path); sys.exit(1)
main_not_valid ==
    [exit |-> 1, stderr |-> "is not a valid KOM file", extracted |-> << >>]

\* main from 'entry_list = ...' on, kom being what opening the file made
main_extract_from(kom, disk) ==
    IF kom.err /= "" THEN main_not_valid
    ELSE ExtractedFrom(kom.entries, 1, disk.files, disk.dirs, << >>)

\* the extract action of main on the bytes f of its first file argument:
\* exit status, error message and 'Extracted' lines
main_extract(f, disk) ==
    IF MainOpenAttr \notin KomClassAttrs
    THEN \* AttributeError, caught by the bare except
         main_not_valid
    ELSE main_extract_from(from_kom_file(f), disk)

MainExtracted(ref, r) ==
    call' = [Call("main_extract", ref,
                  IF r.exit = 0 THEN "" ELSE "SystemExit", << >>)
             EXCEPT !.exit = r.exit, !.stderr = r.stderr,
                    !.extracted = r.extracted]

\* one run of the program with the extract action on the file ref names
MainExtract(ref, disk) ==
    /\ MainExtracted(ref, main_extract(FileBytes(ref), disk))
    /\ UNCHANGED <<origin, version, entries, crc, crc_entry, iter_indexes>>

Next ==
    \/ \E v \in Versions : KomInit(v)
    \/ \E ref \in FileRefs : KomOpen(ref)
    \/ \E name \in FileNames : AddFile(name)
    \/ \E name \in DelNames : DelEntry(name)
    \/ ToFile
    \/ \E ref \in ExtractRefs : Extract(ref)
    \/ CrcXml
    \/ LenCall
    \/ IterCall
    \/ NextCall
    \/ Iterate
    \/ \E ref \in FileRefs, disk \in Disks : MainExtract(ref, disk)

Spec == Init /\ [][Next]_vars

(***************************************************************************)
(* Reading a serialized archive back, byte by byte: what a reader that     *)
(* knows the layout sees in the bytes f that to_file returned.             *)
(***************************************************************************)
\* the entry count of the header
TableCount(f) == UnpackU32(f, RawVersionSize + HeaderPadSize)

\* the i-th 72 byte record of the metadata table
TableRecord(f, i) ==
    Slice(f, header_info_size + (i - 1) * metadata_size,
          header_info_size + i * metadata_size)

TableName(f, i) == RStrip(SubSeq(TableRecord(f, i), 1, NameFieldSize), 0)
TableUSize(f, i) == UnpackU32(TableRecord(f, i), NameFieldSize)
TableCSize(f, i) == UnpackU32(TableRecord(f, i), NameFieldSize + 4)
TableOffset(f, i) == UnpackU32(TableRecord(f, i), NameFieldSize + 8)

\* the data segment, and the part of it the i-th record points at
Blob(f) == Slice(f, header_info_size + metadata_size * TableCount(f), Len(f))
TableData(f, i) ==
    Slice(Blob(f), TableOffset(f, i), TableOffset(f, i) + TableCSize(f, i))

\* the lines of the manifest between '<File>' and '</File>'
FileItemLines(text) ==
    LET lines == Split(text, 10)
        open  == Indent \o <<60>> \o TagFile \o <<62>>
        close == Indent \o <<60, 47>> \o TagFile \o <<62>>
        from  == {k \in 1..Len(lines) : lines[k] = open}
        to    == {k \in 1..Len(lines) : lines[k] = close}
    IN  IF from = {} \/ to = {} THEN << >>
        ELSE LET a == CHOOSE k \in from : \A j \in from : k <= j
                 b == CHOOSE k \in to : \A j \in to : k >= j
             IN  SubSeq(lines, a + 1, b - 1)

Names(es) == [i \in 1..Len(es) |-> es[i].name]
NameSet(es) == {es[i].name : i \in 1..Len(es)}

(***************************************************************************)
(* The claims                                                              *)
(***************************************************************************)

\* C1: round trip.  When an archive made by Kom(version) and add_file is
\* serialized and the bytes are opened, the open succeeds and yields
\* entries with the same set of names, each with the size and, once
\* decompressed, the bytes of the file it was added from.
C1_RoundTrip ==
    [][(origin = "constructed" /\ call.op = "to_file"
        /\ call'.op = "open" /\ call'.arg = BufferRef)
       => /\ call'.err = ""
          /\ Len(entries') = Len(entries)
          /\ NameSet(entries') = NameSet(entries)
          /\ \A i \in 1..Len(entries') :
                /\ entries'[i].uncompressed_size
                       = Len(FileContent(entries'[i].name))
                /\ uncompressed_data(entries'[i])
                       = [ok |-> TRUE, val |-> FileContent(entries'[i].name)]]_vars

\* C2: offset tiling.  After every to_file call, whatever calls came before
\* it, the metadata table of the bytes it returned has one record per entry
\* and one for the manifest; the first offset is 0, every next offset is the
\* one before it plus the compressed size before it, the manifest's record
\* is the last of this sequence, and the entries and the manifest of the
\* object carry these same offsets.
C2_OffsetTiling ==
    call.op = "to_file" =>
        LET f == call.ret
            n == TableCount(f)
        IN  /\ n = Len(entries) + 1
            /\ \A i \in 1..n :
                  TableOffset(f, i) =
                      IF i = 1 THEN 0
                      ELSE TableOffset(f, i - 1) + TableCSize(f, i - 1)
            /\ \A i \in 1..Len(entries) :
                  /\ entries[i].relative_offset = TableOffset(f, i)
                  /\ entries[i].compressed_size = TableCSize(f, i)
            /\ TableName(f, n) = CrcXmlName
            /\ crc_entry[1].relative_offset = TableOffset(f, n)

\* a to_file call on an archive that was opened from a file of two entries
\* whose offsets do not tile and was given a third entry since
C2_Witness ==
    /\ call.op = "to_file"
    /\ origin = "parsed"
    /\ version = 0
    /\ Names(entries) = <<NameCtl, Name60, NameB>>

\* why add_file rejects a name it rejects
Rejection(name) ==
    IF name = CrcXmlName THEN "reserved"
    ELSE IF Len(name) > 60 THEN "too long"
    ELSE IF ~FileExists(name) THEN "unreadable"
    ELSE "present"

\* C3: name validation.  add_file reports a name longer than 60 characters,
\* the name 'crc.xml' and a name that is already present with three
\* different kinds of error, so two rejected calls in a row that are
\* rejected for different reasons never report the same kind.
C3_ThreeErrorKinds ==
    [][(/\ call.op = "add_file" /\ call.err /= ""
        /\ call'.op = "add_file" /\ call'.err /= ""
        /\ Rejection(call'.arg.s) /= Rejection(call.arg.s))
       => call'.err /= call.err]_vars

\* C4: manifest consistency.  In the bytes every to_file call returns, the
\* payload of the last record decompresses to a document whose File element
\* holds one Item line per other record of the metadata table, in the order
\* of the table, with that record's name and uncompressed size and with the
\* CRC-32, as 8 hex digits, of the compressed bytes the record points at.
C4_ManifestConsistency ==
    call.op = "to_file" =>
        LET f     == call.ret
            n     == TableCount(f) - 1
            text  == Decompress(TableData(f, n + 1))
            lines == FileItemLines(text.val)
        IN  /\ text.ok
            /\ Len(lines) = n
            /\ \A i \in 1..n :
                  lines[i] \o <<10>> =
                      WriteFileItem([Name |-> TableName(f, i),
                                     Size |-> Str(TableUSize(f, i)),
                                     Version |-> <<48>>,
                                     CheckSum |-> Hex08(Crc32(TableData(f, i)))])

\* a to_file call on two entries, the first with content whose checksum is
\* not the checksum of its compressed bytes
C4_Witness ==
    /\ call.op = "to_file"
    /\ Len(entries) = 2
    /\ Crc32(entries[1].data) /= Crc32(uncompressed_data(entries[1]).val)

\* C5: serialize idempotence.  A to_file call that directly follows a
\* to_file call returns the same bytes as that call.
C5_SerializeIdempotent ==
    [][(call'.op = "to_file" /\ call'.again) => call'.ret = call.ret]_vars

\* a second to_file call in a row, on an opened archive with two entries
C5_Witness ==
    /\ call.op = "to_file"
    /\ call.again
    /\ origin = "parsed"
    /\ Len(entries) = 2

\* C6: version round trip.  Kom(version) succeeds for every version in
\* 0..5 and makes an archive of that version; the version field of the
\* bytes to_file returns decodes to the version of the archive; opening
\* these bytes is never refused for their version and reports that version.
C6_VersionRoundTrip ==
    [][/\ (call'.op = "Kom" /\ call'.arg.i \in 0..5)
          => (call'.err = "" /\ version' = call'.arg.i)
       /\ call'.op = "to_file"
          => FormatD(int(VersionSegment(Slice(call'.ret, 0, RawVersionSize))))
                 = Str(version')
       /\ (call.op = "to_file" /\ call'.op = "open" /\ call'.arg = BufferRef)
          => (call'.err /= "Exception" /\ (call'.err = "" => version' = version))
      ]_vars

\* the entry a reference resolves to, << >> when it resolves to none; a
\* negative index counts from the end, as the list's does, and is left out
Target(es, manifest, ref) ==
    IF ref.kind = "int"
    THEN IF ref.i < Len(es) THEN <<es[ref.i + 1]>> ELSE << >>
    ELSE IF ref.s = CrcXmlName THEN manifest
    ELSE IF ref.s \in NameSet(es)
         THEN <<es[CHOOSE i \in 1..Len(es) : es[i].name = ref.s]>>
    ELSE << >>

IsReference(ref) ==
    (ref.kind = "int" /\ ref.i >= 0) \/ ref.kind = "str"

\* C7: extract resolution.  extract of an index, a name or 'crc.xml'
\* returns the decompressed bytes of the entry the reference resolves to;
\* when it resolves to none, the call fails, and every such failure is of
\* the same kind: two failed calls in a row report the same error.
C7_ExtractResolution ==
    [][(call'.op = "extract" /\ IsReference(call'.arg)) =>
        LET target == Target(entries, crc_entry, call'.arg)
        IN  IF target /= << >>
            THEN /\ call'.err = ""
                 /\ call'.ret = uncompressed_data(target[1]).val
            ELSE /\ call'.err /= ""
                 /\ (/\ call.op = "extract" /\ IsReference(call.arg)
                     /\ Target(entries, crc_entry, call.arg) = << >>)
                    => call'.err = call.err]_vars

\* C8: manifest freshness.  Once add_file or del_entry has changed the
\* entries, the archive no longer holds the manifest entry that to_file
\* built, or open loaded, before the change.
C8_ManifestFreshness ==
    [][(/\ call'.op \in {"add_file", "del_entry"}
        /\ call'.err = ""
        /\ crc_entry /= << >>)
       => crc_entry' /= crc_entry]_vars

\* C9: serialize is a pure projection.  to_file leaves the sequence of the
\* entries, as entries and extract(i) show it, as it was before the call.
C9_SerializePure ==
    [][call'.op = "to_file" =>
        /\ Names(entries') = Names(entries)
        /\ \A i \in 1..Len(entries) : entries'[i].data = entries[i].data]_vars

\* C10: CLI extract.  The program run with the extract action on a file
\* that Kom can open exits with status 0, does not say that the file is not
\* a valid KOM file, and prints one 'Extracted' line per entry of the file,
\* the manifest left out.
C10_CliExtract ==
    (/\ call.op = "main_extract"
     /\ call.arg.i \in ForeignIds
     /\ ForeignParsed[call.arg.i].err = "")
    => /\ call.exit = 0
       /\ call.stderr /= "is not a valid KOM file"
       /\ call.extracted = Names(ForeignParsed[call.arg.i].entries)

\* C11: length/iteration agreement.  len(kom) is the number of items a
\* loop over kom gets: the number of entries, plus one for the manifest
\* once the archive holds one.
C11_LenAgreesWithIteration ==
    call.op = "len" =>
        /\ call.count = Len(kom_iter(entries, crc_entry).yielded)
        /\ call.count = Len(entries) + (IF crc_entry /= << >> THEN 1 ELSE 0)

====
